---- MODULE Spec2Model ----
(***************************************************************************)
(* A model of the fileheap client: the concurrency limiter and the         *)
(* first-error box of package async, the upload and delete batch           *)
(* assemblers of package client, and the Upload orchestrator of package    *)
(* cli that composes them.                                                 *)
(***************************************************************************)
EXTENDS Integers, Sequences, FiniteSets, TLC

VARIABLES
    limit,      \* Limiter: capacity of the channel l.c (limiter.go:19)
    c,          \* Limiter: number of tokens buffered in l.c
    wg,         \* Limiter: counter of l.wg
    ppc,        \* the position of the goroutine that calls Go and Wait
    cur,        \* the number of Go calls begun so far
    tpc,        \* per routine: the position of the goroutine Go spawned
    runs,       \* per routine: how many times its fn body was entered
    err,        \* async.Error: the field e.err
    lock,       \* async.Error: the holder of e.lock, 0 when free
    rpc,        \* per reporter: its position inside Report
    rarg,       \* per reporter: the argument of its Report call
    lockOrder,  \* history: the arguments of Report in lock-acquisition order
    got,        \* what the last Err call returned, and whether all reports were over
    batch,      \* the batch under assembly, an UploadBatch or a DeleteBatch
    bpc,        \* the batch's stage: "none", "assembling", "executed"
    nadd,       \* the number of AddFile calls made on the batch
    call,       \* the last call made on the batch
    ret,        \* the error the last call returned
    sent,       \* the requests Upload or Delete handed to the HTTP client
    closed,     \* the readers Upload closed
    upc,        \* cli.Upload: the position of the goroutine that called it
    visited,    \* cli.Upload: the number of entries the walk has visited
    ubatch,     \* cli.Upload: the variable batch, under assembly
    held,       \* cli.Upload: the file the visitor holds while Go blocks
    units,      \* cli.Upload: per unit, its position, its batch and its error
    nunits,     \* cli.Upload: the number of units started
    tracker,    \* the sums of the ProgressUpdate deltas the tracker received
    cancelled,  \* whether the context derived by Upload is cancelled
    uret,       \* what Upload returned
    down,       \* the BatchDownloader: its iterator and its field nextInfo
    dpc,        \* the downloader's stage: "new", "open"
    dcalls,     \* the number of Next calls made on the downloader
    dbatches,   \* history: the batches Next returned, in order
    dret,       \* the error the last Next call on the downloader returned
    fb,         \* the FileBatch: infos, err, read, resp, mr
    fpc,        \* the FileBatch's stage: "new", "open"
    fcalls,     \* the number of Next calls made on the FileBatch
    fret,       \* what the last Next call on the FileBatch returned
    fgot,       \* history: the infos and parts the successful Next calls returned
    freqs,      \* history: the requests the FileBatch issued
    dlpc,       \* cli.Download: the position of the goroutine that called it
    dlheld,     \* cli.Download: the batch handed to limiter.Go while it blocks
    dunits,     \* cli.Download: per unit, its position and its FileBatch
    dnunits,    \* cli.Download: the number of units started
    dlret,      \* what Download returned
    rfpc,       \* ReadFileRange: "idle", "failed", "copying", "done"
    roffset,    \* ReadFileRange: the variable offset of the copying goroutine
    rlength,    \* ReadFileRange: the variable length of the copying goroutine
    orig,       \* the offset and length ReadFileRange was called with
    streams,    \* history: per response body opened, whether it is closed
    attempts,   \* history: per io.Copy call, the bytes it copied and its error
    delivered,  \* history: the positions of the bytes the consumer has read
    preqs,      \* history: the requests sent, each with the bytes delivered before
    pipeErr,    \* what the consumer reads at the end of the pipe
    rfret,      \* the error ReadFileRange returned
    wpc,        \* WriteFile: "idle", "done"
    wcall,      \* the arguments of the WriteFile call and its environment
    wup,        \* what Client.upload returned to WriteFile, if it was called
    wret,       \* what WriteFile returned and the requests it sent
    rqpc,       \* one request: "idle", "attempt", "check", "wait", "returned"
    rqop,       \* the operation that sends the request
    rqi,        \* the retry loop's attempt number i
    rqhist,     \* how each call of http.Client.Do for the request ended
    rqcancelled,\* whether the request's context is cancelled
    rqcancelAt, \* the calls made when the context was cancelled, or -1
    rqret,      \* the response and the error returned to the operation
    bkpc,       \* exponentialJitterBackoff: "idle", "done"
    bkcall,     \* its arguments and the value random.Float64 gave it
    bkret,      \* the duration it returned
    dgpc,       \* the digest codec: "idle", "text", "tampered", "decoded"
    dgdigest,   \* the digest handed to EncodeDigest
    dgtext,     \* the text handed to DecodeDigest
    dgret,      \* what DecodeDigest returned
    pgpc,       \* the paged FileIterator's stage: "new", "open"
    pgpages,    \* the manifest pages the service holds for the listing
    pgit,       \* the FileIterator: files, cursor, lastRequest
    pgcalls,    \* the number of Next calls made on the FileIterator
    pgyield,    \* history: the files Next returned, in order
    pgreqs,     \* history: the manifest requests Next made
    pgret,      \* the error the last Next call returned
    pclosed     \* the number of the io.Copy call during which the consumer
                \* closed the reader ReadFileRange returned, 0 while it is open

limVars == <<limit, c, wg, ppc, cur, tpc, runs>>

errVars == <<err, lock, rpc, rarg, lockOrder, got>>

batchVars == <<batch, bpc, nadd, call, ret, sent, closed>>

upVars == <<upc, visited, ubatch, held, units, nunits, tracker, cancelled,
            uret>>

base == <<limVars, errVars, batchVars, upVars>>

downVars == <<down, dpc, dcalls, dbatches, dret>>

\* The state of the download side and of the single-file transfers.
fbVars == <<fb, fpc, fcalls, fret, fgot, freqs>>

dlVars == <<dlpc, dlheld, dunits, dnunits, dlret>>

readVars == <<rfpc, roffset, rlength, orig, streams, attempts, delivered,
              preqs, pipeErr, rfret>>

writeVars == <<wpc, wcall, wup, wret>>

retryVars == <<rqpc, rqop, rqi, rqhist, rqcancelled, rqcancelAt, rqret>>

backoffVars == <<bkpc, bkcall, bkret>>

digestVars == <<dgpc, dgdigest, dgtext, dgret>>

pageVars == <<pgpc, pgpages, pgit, pgcalls, pgyield, pgreqs, pgret>>

closeVars == <<pclosed>>

moreVars == <<downVars, fbVars, dlVars, readVars, writeVars, retryVars, backoffVars, digestVars, pageVars, closeVars>>

notDown == <<base, fbVars, dlVars, readVars, writeVars, retryVars, backoffVars, digestVars, pageVars, closeVars>>

notFb == <<base, downVars, dlVars, readVars, writeVars, retryVars, backoffVars, digestVars, pageVars, closeVars>>

notRead == <<base, downVars, fbVars, dlVars, writeVars, retryVars, backoffVars, digestVars, pageVars, closeVars>>

notWrite == <<base, downVars, fbVars, dlVars, readVars, retryVars, backoffVars, digestVars, pageVars, closeVars>>

notRetry == <<base, downVars, fbVars, dlVars, readVars, writeVars, backoffVars, digestVars, pageVars, closeVars>>

notBackoff == <<base, downVars, fbVars, dlVars, readVars, writeVars, retryVars, digestVars, pageVars, closeVars>>

notDigest == <<base, downVars, fbVars, dlVars, readVars, writeVars, retryVars, backoffVars, pageVars, closeVars>>

notPage == <<base, downVars, fbVars, dlVars, readVars, writeVars, retryVars, backoffVars, digestVars, closeVars>>

notClose == <<base, downVars, fbVars, dlVars, readVars, writeVars, retryVars, backoffVars, digestVars, pageVars>>

\* cli.Download works on the limiter's limit, c and wg, on the box's err,
\* on the tracker, on its context and on a BatchDownloader.
notDl == <<ppc, cur, tpc, runs, lock, rpc, rarg, lockOrder, got, batchVars,
           upc, visited, ubatch, held, units, nunits, uret, dpc, fbVars,
           readVars, writeVars, retryVars, backoffVars, digestVars, pageVars, closeVars>>

vars == <<limVars, errVars, batchVars, upVars, moreVars>>

\* What the steps of one component leave alone.
notLim == <<errVars, batchVars, upVars, moreVars>>

notErr == <<limVars, batchVars, upVars, moreVars>>

notBatch == <<limVars, errVars, upVars, moreVars>>

\* cli.Upload works on the limiter's limit, c and wg and on the box's err.
notUp == <<ppc, cur, tpc, runs, lock, rpc, rarg, lockOrder, got, batchVars,
           moreVars>>

-----------------------------------------------------------------------------
(* Bounds of the model *)

\* The number of Go calls the producer may make.
NumTasks == 3

\* The largest limit handed to NewLimiter.
MaxLimit == 2

Tasks == 1..NumTasks

\* The number of goroutines that call Report.
NumReporters == 3

Reporters == 1..NumReporters

-----------------------------------------------------------------------------
(* async.Limiter, src/async/limiter.go *)

\* A send on the buffered channel l.c proceeds only while it holds fewer
\* than cap(l.c) tokens, mutated: one token too many is let in.
CanSendOffByOne(n, lim) == n <= lim

\* limiter.go:29: l.c <- struct{}{} blocks while the channel is full.
CanSend(n, lim) == n < lim

\* The deferred receive, mutated: the slot is never given back.
ReleaseSlotLeaked(n) == n

\* limiter.go:33: <-l.c takes one token out of the channel.
ReleaseSlot(n) == n - 1

\* Wait, mutated: it does not wait for the counter.
WaitCanReturnAlways(n) == TRUE

\* limiter.go:43: l.wg.Wait() returns once the counter is zero.
WaitCanReturn(n) == n = 0

Running == {t \in Tasks : tpc[t] = "running"}

\* limiter.go:14-20: a limit that is not positive panics.
NewLimiter(l) ==
    /\ ppc = "new"
    /\ IF l <= 0
         THEN /\ ppc' = "panic"
              /\ UNCHANGED limit
         ELSE /\ ppc' = "idle"
              /\ limit' = l
    /\ UNCHANGED <<c, wg, cur, tpc, runs>>
    /\ UNCHANGED notLim

\* limiter.go:28: Go begins with l.wg.Add(1).
GoAdd ==
    /\ ppc = "idle"
    /\ cur < NumTasks
    /\ cur' = cur + 1
    /\ wg' = wg + 1
    /\ ppc' = "send"
    /\ UNCHANGED <<limit, c, tpc, runs>>
    /\ UNCHANGED notLim

\* limiter.go:29-38: the send on l.c, then the go statement; Go returns.
GoSend ==
    /\ ppc = "send"
    /\ CanSend(c, limit)
    /\ c' = c + 1
    /\ tpc' = [tpc EXCEPT ![cur] = "spawned"]
    /\ ppc' = "idle"
    /\ UNCHANGED <<limit, wg, cur, runs>>
    /\ UNCHANGED notLim

\* limiter.go:37: the goroutine enters fn.
FnStart(t) ==
    /\ tpc[t] = "spawned"
    /\ tpc' = [tpc EXCEPT ![t] = "running"]
    /\ runs' = [runs EXCEPT ![t] = @ + 1]
    /\ UNCHANGED <<limit, c, wg, ppc, cur>>
    /\ UNCHANGED notLim

\* limiter.go:37: fn returns.
FnReturn(t) ==
    /\ tpc[t] = "running"
    /\ tpc' = [tpc EXCEPT ![t] = "returned"]
    /\ UNCHANGED <<limit, c, wg, ppc, cur, runs>>
    /\ UNCHANGED notLim

\* limiter.go:33: the deferred function receives from l.c.
Release(t) ==
    /\ tpc[t] = "returned"
    /\ c' = ReleaseSlot(c)
    /\ tpc' = [tpc EXCEPT ![t] = "released"]
    /\ UNCHANGED <<limit, wg, ppc, cur, runs>>
    /\ UNCHANGED notLim

\* limiter.go:34: the deferred function calls l.wg.Done().
Done(t) ==
    /\ tpc[t] = "released"
    /\ wg' = wg - 1
    /\ tpc' = [tpc EXCEPT ![t] = "done"]
    /\ UNCHANGED <<limit, c, ppc, cur, runs>>
    /\ UNCHANGED notLim

\* limiter.go:42-44: the producer, having made its Go calls, calls Wait.
WaitCall ==
    /\ ppc = "idle"
    /\ ppc' = "wait"
    /\ UNCHANGED <<limit, c, wg, cur, tpc, runs>>
    /\ UNCHANGED notLim

\* limiter.go:43: Wait returns.
WaitReturn ==
    /\ ppc = "wait"
    /\ WaitCanReturn(wg)
    /\ ppc' = "waited"
    /\ UNCHANGED <<limit, c, wg, cur, tpc, runs>>
    /\ UNCHANGED notLim

LimInit ==
    /\ limit = 0
    /\ c = 0
    /\ wg = 0
    /\ ppc = "new"
    /\ cur = 0
    /\ tpc = [t \in Tasks |-> "none"]
    /\ runs = [t \in Tasks |-> 0]

LimNext ==
    \/ \E l \in 0..MaxLimit : NewLimiter(l)
    \/ GoAdd
    \/ GoSend
    \/ \E t \in Tasks : FnStart(t)
    \/ \E t \in Tasks : FnReturn(t)
    \/ \E t \in Tasks : Release(t)
    \/ \E t \in Tasks : Done(t)
    \/ WaitCall
    \/ WaitReturn

Producer == GoAdd \/ GoSend \/ WaitCall \/ WaitReturn

Routine(t) == FnStart(t) \/ FnReturn(t) \/ Release(t) \/ Done(t)


-----------------------------------------------------------------------------
(* Errors: an error value is the chain of its wrappers, outermost first,   *)
(* ending in the root error. Go compares error values by identity, so a    *)
(* wrapped error is never equal to the error it wraps.                     *)

Nil == <<>>

\* context.Canceled, the sentinel of package context.
Canceled == <<"context.Canceled">>

\* Failures that are not cancellations: one per reporter.
Failure(i) == <<"failure", ToString(i)>>

\* errors.WithStack(e) of github.com/pkg/errors: nil stays nil, any other
\* error is wrapped in a new value.
WithStack(e) == IF e = Nil THEN Nil ELSE <<"withStack">> \o e

\* The root of an error chain.
Cause(e) == IF e = Nil THEN Nil ELSE SubSeq(e, Len(e), Len(e))

IsCancellation(e) == Cause(e) = Canceled

-----------------------------------------------------------------------------
(* async.Error, src/unnamed/part_002 *)

\* The test of Report, mutated: a cancellation is let through.
ReportableAnyError(e) == e # Nil

\* The test of Report, mutated: a wrapped cancellation is dropped as well.
ReportableUnlessCancelled(e) == e # Nil /\ ~IsCancellation(e)

\* part_002:18: if err != context.Canceled && err != nil.
Reportable(e) == e # Canceled /\ e # Nil

\* The store of Report, mutated: the last error wins.
StoredLast(old, new) == new

\* part_002:20-22: if e.err == nil { e.err = err }.
Stored(old, new) == IF old = Nil THEN new ELSE old

\* What Report(e) leaves in the box, the lock being held throughout the
\* test-and-set of part_002:19-23.
AfterReport(old, e) == IF Reportable(e) THEN Stored(old, e) ELSE old

ReportArgs ==
    {Nil, Canceled, WithStack(Canceled)} \cup {Failure(i) : i \in Reporters}

\* A goroutine calls Report(e).
ReportCall(r, e) ==
    /\ rpc[r] = "idle"
    /\ rarg' = [rarg EXCEPT ![r] = e]
    /\ rpc' = [rpc EXCEPT ![r] = "test"]
    /\ UNCHANGED <<err, lock, lockOrder, got>>
    /\ UNCHANGED notErr

\* part_002:18: the test made before the lock is taken.
ReportTest(r) ==
    /\ rpc[r] = "test"
    /\ rpc' = [rpc EXCEPT ![r] = IF Reportable(rarg[r]) THEN "lock" ELSE "done"]
    /\ UNCHANGED <<err, lock, rarg, lockOrder, got>>
    /\ UNCHANGED notErr

\* part_002:19: e.lock.Lock().
ReportLock(r) ==
    /\ rpc[r] = "lock"
    /\ lock = 0
    /\ lock' = r
    /\ lockOrder' = Append(lockOrder, rarg[r])
    /\ rpc' = [rpc EXCEPT ![r] = "store"]
    /\ UNCHANGED <<err, rarg, got>>
    /\ UNCHANGED notErr

\* part_002:20-22: the store under the lock.
ReportStore(r) ==
    /\ rpc[r] = "store"
    /\ err' = Stored(err, rarg[r])
    /\ rpc' = [rpc EXCEPT ![r] = "unlock"]
    /\ UNCHANGED <<lock, rarg, lockOrder, got>>
    /\ UNCHANGED notErr

\* part_002:23: e.lock.Unlock().
ReportUnlock(r) ==
    /\ rpc[r] = "unlock"
    /\ lock' = 0
    /\ rpc' = [rpc EXCEPT ![r] = "done"]
    /\ UNCHANGED <<err, rarg, lockOrder, got>>
    /\ UNCHANGED notErr

ReportsOver == \A r \in Reporters : rpc[r] = "done"

\* part_002:28-32: Err takes the lock, reads e.err and gives the lock back.
ErrCall ==
    /\ lock = 0
    /\ got' = [called |-> TRUE, val |-> err, final |-> ReportsOver]
    /\ UNCHANGED <<err, lock, rpc, rarg, lockOrder>>
    /\ UNCHANGED notErr

ErrInit ==
    /\ err = Nil
    /\ lock = 0
    /\ rpc = [r \in Reporters |-> "idle"]
    /\ rarg = [r \in Reporters |-> Nil]
    /\ lockOrder = <<>>
    /\ got = [called |-> FALSE, val |-> Nil, final |-> FALSE]

ErrNext ==
    \/ \E r \in Reporters, e \in ReportArgs : ReportCall(r, e)
    \/ \E r \in Reporters : ReportTest(r)
    \/ \E r \in Reporters : ReportLock(r)
    \/ \E r \in Reporters : ReportStore(r)
    \/ \E r \in Reporters : ReportUnlock(r)
    \/ ErrCall

-----------------------------------------------------------------------------
(* Limits of the protocol, src/unnamed/part_001, scaled down: the service  *)
(* admits 500 files and 32 MiB per request.                                *)

\* part_001:10 BatchSizeLimit, client.go:26 batchSizeLimit.
batchSizeLimit == 3

\* part_001:14 PutFileSizeLimit, client.go:29 requestSizeLimit.
requestSizeLimit == 3

\* The largest declared size of a file, above requestSizeLimit.
MaxFileSize == 4

\* The number of AddFile calls made on one batch.
MaxAdds == 4

FileSizes == 0..MaxFileSize

-----------------------------------------------------------------------------
(* client.UploadBatch, src/client/batch_upload.go, and client.DeleteBatch, *)
(* src/client/batch_delete.go. A batch is a record of the struct's fields. *)
(* A reader is a record: id names it, closer says whether it implements    *)
(* io.Closer, avail is the number of bytes it yields and end is how it     *)
(* ends after them ("eof", or "err" for a failed read).                    *)

ErrNoCapacity == <<"batch does not have capacity for another file">>

\* dataset.go:122-125 NewUploadBatch.
NewUploadBatch ==
    [kind |-> "upload", paths |-> <<>>, readers |-> <<>>, sizes |-> <<>>, size |-> 0]

\* dataset.go:127-130 NewDeleteBatch.
NewDeleteBatch == [kind |-> "delete", paths |-> <<>>]

\* batch_upload.go:27-30.
Length(b) == Len(b.paths)

\* batch_upload.go:32-35.
Size(b) == b.size

\* HasCapacity, mutated: the file count is compared with <=.
UploadBatchHasCapacityOffByOne(b, size) ==
    IF Len(b.paths) = 0 THEN TRUE
    ELSE Len(b.paths) <= batchSizeLimit /\ b.size + size <= requestSizeLimit

\* batch_upload.go:37-44.
UploadBatchHasCapacity(b, size) ==
    IF Len(b.paths) = 0 THEN TRUE
    ELSE Len(b.paths) < batchSizeLimit /\ b.size + size <= requestSizeLimit

\* The running total of AddFile, mutated: assigned, not added.
AddedSizeAssigned(old, size) == size

\* batch_upload.go:55: b.size += size.
AddedSize(old, size) == old + size

\* AddFile, mutated: the capacity test is missing.
UploadBatchAddFileUnchecked(b, path, reader, size) ==
    [err |-> Nil,
     batch |-> [b EXCEPT !.paths = Append(@, path),
                         !.readers = Append(@, reader),
                         !.sizes = Append(@, size),
                         !.size = AddedSize(@, size)]]

\* batch_upload.go:46-57: the error AddFile returns and the batch it leaves.
UploadBatchAddFile(b, path, reader, size) ==
    IF ~UploadBatchHasCapacity(b, size)
      THEN [err |-> ErrNoCapacity, batch |-> b]
      ELSE [err |-> Nil,
            batch |-> [b EXCEPT !.paths = Append(@, path),
                                !.readers = Append(@, reader),
                                !.sizes = Append(@, size),
                                !.size = AddedSize(@, size)]]

\* batch_delete.go:28-31.
DeleteBatchHasCapacity(b) == Len(b.paths) < batchSizeLimit

\* batch_delete.go:33-41.
DeleteBatchAddFile(b, path) ==
    IF ~DeleteBatchHasCapacity(b)
      THEN [err |-> ErrNoCapacity, batch |-> b]
      ELSE [err |-> Nil, batch |-> [b EXCEPT !.paths = Append(@, path)]]

-----------------------------------------------------------------------------
(* Readers and requests. The environment of one operation is a record:     *)
(* failAt is the number of the request that fails (0: none), failKind is   *)
(* how it fails, digestAt is the number of the chunk whose response        *)
(* carries a Digest header (0: none).                                      *)

EOF == <<"io.EOF">>

ErrUnexpectedEOF == <<"io.ErrUnexpectedEOF">>

ReadError == <<"read error">>

NewRequestError == <<"http.NewRequest">>

ApiError == <<"api.Error">>

ErrFileNotFound == <<"file not found">>

ErrNoDigest == <<"service did not return digest">>

Truncated(path) == <<"truncated while uploading", ToString(path)>>

\* net/http wraps what the transport reports, a cancelled context included,
\* in a *url.Error.
UrlError(e) == <<"url.Error">> \o e

FailKinds == {"newRequest", "transport", "canceled", "status", "notFound"}

\* How the k-th request of an operation ends.
Attempt(env, k) == IF env.failAt = k THEN env.failKind ELSE "ok"

\* client.go:90-98 Client.do: the error of http.Client.Do for a request
\* that ends as kind says.
DoError(kind) ==
    CASE kind = "transport" -> UrlError(<<"connection reset">>)
      [] kind = "canceled" -> UrlError(Canceled)
      [] OTHER -> Nil

\* client.go:144-162 errorFromResponse.
ErrorFromResponse(kind) ==
    IF kind \in {"status", "notFound"} THEN ApiError ELSE Nil

\* io.CopyN(dst, src, n) from a source that yields avail more bytes and
\* then ends as end says: the bytes copied and the error.
CopyN(avail, end, n) ==
    IF avail >= n THEN [n |-> n, err |-> Nil]
    ELSE [n |-> avail, err |-> IF end = "eof" THEN EOF ELSE ReadError]

\* The limit on the source, mutated: the source is read as it is.
LimitReaderUnlimited(reader, size) == reader

\* io.LimitReader(source, size), dataset.go:290.
LimitReader(reader, size) ==
    IF reader.avail >= size
      THEN [reader EXCEPT !.avail = size, !.end = "eof"]
      ELSE reader

Min(a, b) == IF a <= b THEN a ELSE b

\* part_009:45-81: the loop of Client.upload from `written` bytes on; j is
\* the number of the chunk, k the number of the request, reqs the requests
\* sent so far.
RECURSIVE UploadLoop(_, _, _, _, _, _, _)
UploadLoop(written, reader, length, j, k, env, reqs) ==
    IF ~(written < length)
      THEN [digest |-> Nil, err |-> ErrNoDigest, reqs |-> reqs, k |-> k]
    ELSE
      LET chunkSize == Min(requestSizeLimit, length)
          cp == CopyN(reader.avail - written, reader.end, chunkSize)
          kind == Attempt(env, k)
          patch == [method |-> "PATCH", url |-> <<"uploads">>,
                    uploadLength |-> length, uploadOffset |-> written,
                    contentLength |-> cp.n]
      IN
      IF cp.err = EOF /\ written + cp.n # length
        THEN [digest |-> Nil, err |-> ErrUnexpectedEOF, reqs |-> reqs, k |-> k]
      ELSE IF cp.err # EOF /\ cp.err # Nil
        THEN [digest |-> Nil, err |-> WithStack(cp.err), reqs |-> reqs, k |-> k]
      ELSE IF kind = "newRequest"
        THEN [digest |-> Nil, err |-> WithStack(NewRequestError),
              reqs |-> reqs, k |-> k]
      ELSE IF DoError(kind) # Nil
        THEN [digest |-> Nil, err |-> WithStack(DoError(kind)),
              reqs |-> Append(reqs, patch), k |-> k]
      ELSE IF ErrorFromResponse(kind) # Nil
        THEN [digest |-> Nil, err |-> ErrorFromResponse(kind),
              reqs |-> Append(reqs, patch), k |-> k]
      ELSE IF env.digestAt = j
        THEN [digest |-> <<"digest", j>>, err |-> Nil,
              reqs |-> Append(reqs, patch), k |-> k + 1]
      ELSE UploadLoop(written + cp.n, reader, length, j + 1, k + 1, env,
                      Append(reqs, patch))

\* part_009:21-84 Client.upload: the digest or the error, the requests sent
\* and the number of the next request.
ClientUpload(reader, length, env) ==
    LET kind == Attempt(env, 1)
        post == [method |-> "POST", url |-> <<"uploads">>]
    IN
    IF kind = "newRequest"
      THEN [digest |-> Nil, err |-> WithStack(NewRequestError),
            reqs |-> <<>>, k |-> 1]
    ELSE IF DoError(kind) # Nil
      THEN [digest |-> Nil, err |-> WithStack(DoError(kind)),
            reqs |-> <<post>>, k |-> 1]
    ELSE IF ErrorFromResponse(kind) # Nil
      THEN [digest |-> Nil, err |-> ErrorFromResponse(kind),
            reqs |-> <<post>>, k |-> 1]
    ELSE UploadLoop(0, reader, length, 1, 2, env, <<post>>)

\* dataset.go:316-333: the PUT that commits a file; k is its request number.
PutFile(path, size, digest, k, env, reqs) ==
    LET kind == Attempt(env, k)
        put == [method |-> "PUT", url |-> <<"files", path>>,
                hasBody |-> size # 0, contentLength |-> size, digest |-> digest]
    IN
    IF kind = "newRequest" THEN [err |-> NewRequestError, reqs |-> reqs]
    ELSE IF DoError(kind) # Nil
      THEN [err |-> WithStack(DoError(kind)), reqs |-> Append(reqs, put)]
    ELSE [err |-> ErrorFromResponse(kind), reqs |-> Append(reqs, put)]

\* The error of upload, mutated: returned as it is.
UploadFailureUntranslated(e, path) == e

\* dataset.go:298-303: what WriteFile returns when upload fails with e.
UploadFailure(e, path) == IF e = ErrUnexpectedEOF THEN Truncated(path) ELSE e

\* The choice of the chunked session, mutated: taken from the limit on.
ChunkedFromLimit(size) == size >= requestSizeLimit

\* dataset.go:295: the test that sends a file through the chunked session.
Chunked(size) == size > requestSizeLimit

\* dataset.go:283-334 DatasetRef.WriteFile: the error and the requests sent.
WriteFile(path, reader, size, env) ==
    LET source == LimitReader(reader, size) IN
    IF Chunked(size)
      THEN LET u == ClientUpload(source, size, env) IN
           IF u.err # Nil
             THEN [err |-> UploadFailure(u.err, path), reqs |-> u.reqs]
             ELSE PutFile(path, 0, u.digest, u.k, env, u.reqs)
    ELSE IF size # 0
      THEN LET cp == CopyN(source.avail, source.end, size) IN
           IF cp.err = EOF THEN [err |-> Truncated(path), reqs |-> <<>>]
           ELSE IF cp.err # Nil
             THEN [err |-> WithStack(cp.err), reqs |-> <<>>]
           ELSE PutFile(path, size, Nil, 1, env, <<>>)
    ELSE PutFile(path, 0, Nil, 1, env, <<>>)

\* dataset.go:170-182 DatasetRef.DeleteFile.
DeleteFile(path, env) ==
    LET kind == Attempt(env, 1)
        del == [method |-> "DELETE", url |-> <<"files", path>>]
    IN
    IF kind = "newRequest"
      THEN [err |-> WithStack(NewRequestError), reqs |-> <<>>]
    ELSE IF DoError(kind) # Nil
      THEN [err |-> WithStack(DoError(kind)), reqs |-> <<del>>]
    ELSE IF kind = "notFound" THEN [err |-> ErrFileNotFound, reqs |-> <<del>>]
    ELSE [err |-> ErrorFromResponse(kind), reqs |-> <<del>>]

\* batch_upload.go:98-110 and batch_delete.go:66-79: the multipart POST.
PostBatch(url, paths, env) ==
    LET kind == Attempt(env, 1)
        post == [method |-> "POST", url |-> <<url>>, parts |-> paths]
    IN
    IF kind = "newRequest"
      THEN [err |-> WithStack(NewRequestError), reqs |-> <<>>]
    ELSE IF DoError(kind) # Nil
      THEN [err |-> WithStack(DoError(kind)), reqs |-> <<post>>]
    ELSE [err |-> ErrorFromResponse(kind), reqs |-> <<post>>]

\* batch_upload.go:80-93: the first entry, from i on, whose reader does not
\* yield its declared size, as the error of the copy; Nil when all do.
RECURSIVE CopyParts(_, _)
CopyParts(b, i) ==
    IF i > Len(b.paths) THEN Nil
    ELSE LET cp == CopyN(b.readers[i].avail, b.readers[i].end, b.sizes[i]) IN
         IF cp.err = EOF THEN Truncated(b.paths[i])
         ELSE IF cp.err # Nil THEN WithStack(cp.err)
         ELSE CopyParts(b, i + 1)

\* batch_upload.go:65-71: the deferred loop closes every reader that
\* implements io.Closer.
ClosedReaders(b) ==
    {b.readers[i].id : i \in {n \in 1..Len(b.readers) : b.readers[n].closer}}

\* The close of the readers, mutated: only the readers copied so far.
ClosedOnReturnFirstOnly(b, e) ==
    IF e = Nil THEN ClosedReaders(b)
    ELSE {b.readers[i].id : i \in {n \in 1..1 : b.readers[n].closer}}

\* batch_upload.go:65-71: the readers closed when Upload returns e.
ClosedOnReturn(b, e) == ClosedReaders(b)

\* Upload, mutated: a batch of one file is sent as a multipart request.
UploadBatchUploadAlwaysMultipart(b, env) ==
    IF Len(b.paths) = 0 THEN [err |-> Nil, reqs |-> <<>>, closed |-> {}]
    ELSE LET r == IF CopyParts(b, 1) # Nil
                    THEN [err |-> CopyParts(b, 1), reqs |-> <<>>]
                    ELSE PostBatch("batch/upload", b.paths, env)
         IN [err |-> r.err, reqs |-> r.reqs, closed |-> ClosedOnReturn(b, r.err)]

\* batch_upload.go:59-111 UploadBatch.Upload: the error it returns, the
\* requests it sent and the readers it closed.
UploadBatchUpload(b, env) ==
    IF Len(b.paths) = 0 THEN [err |-> Nil, reqs |-> <<>>, closed |-> {}]
    ELSE LET r == IF Len(b.paths) = 1
                    THEN WriteFile(b.paths[1], b.readers[1], b.sizes[1], env)
                  ELSE IF CopyParts(b, 1) # Nil
                    THEN [err |-> CopyParts(b, 1), reqs |-> <<>>]
                  ELSE PostBatch("batch/upload", b.paths, env)
         IN [err |-> r.err, reqs |-> r.reqs, closed |-> ClosedOnReturn(b, r.err)]

\* batch_delete.go:43-80 DeleteBatch.Delete.
DeleteBatchDelete(b, env) ==
    IF Len(b.paths) = 0 THEN [err |-> Nil, reqs |-> <<>>]
    ELSE IF Len(b.paths) = 1 THEN DeleteFile(b.paths[1], env)
    ELSE PostBatch("batch/delete", b.paths, env)

-----------------------------------------------------------------------------
(* One batch under assembly: the calls a client makes on it. *)

\* The number of chunks of a chunked upload of size bytes.
Chunks(size) == (size + requestSizeLimit - 1) \div requestSizeLimit

\* The environments of an operation that makes at most maxReq requests, of
\* which maxChunk carry a chunk.
Envs(maxReq, maxChunk) ==
    {e \in [failAt : 0..maxReq, failKind : FailKinds, digestAt : 0..maxChunk] :
        e.failAt = 0 => e.failKind = "transport"}

\* The environments of Upload on batch b: a single file above
\* requestSizeLimit takes a chunked upload (POST, one PATCH per chunk, PUT),
\* anything else one request.
UploadEnvs(b) ==
    IF b.kind = "upload" /\ Len(b.paths) = 1 /\ b.sizes[1] > requestSizeLimit
      THEN Envs(Chunks(b.sizes[1]) + 2, Chunks(b.sizes[1]))
      ELSE Envs(1, 0)

\* The readers a caller may hand to AddFile with a declared size: one that
\* yields at least size bytes, or one that ends or fails before.
Readers(id, size) ==
    {[id |-> id, closer |-> cl, avail |-> size, end |-> "eof"] : cl \in BOOLEAN}
    \cup {[id |-> id, closer |-> cl, avail |-> av, end |-> en] :
             cl \in BOOLEAN, av \in 0..(size - 1), en \in {"eof", "err"}}

NoCall == [op |-> "none", path |-> 0, size |-> 0]

\* dataset.go:122-125: a new upload batch replaces the one under test.
BatchNewUpload ==
    /\ bpc \in {"none", "executed"}
    /\ batch' = NewUploadBatch
    /\ bpc' = "assembling"
    /\ nadd' = 0
    /\ call' = NoCall
    /\ ret' = Nil
    /\ sent' = <<>>
    /\ closed' = {}
    /\ UNCHANGED notBatch

\* dataset.go:127-130: a new delete batch replaces the one under test.
BatchNewDelete ==
    /\ bpc \in {"none", "executed"}
    /\ batch' = NewDeleteBatch
    /\ bpc' = "assembling"
    /\ nadd' = 0
    /\ call' = NoCall
    /\ ret' = Nil
    /\ sent' = <<>>
    /\ closed' = {}
    /\ UNCHANGED notBatch

\* batch_upload.go:46-57: AddFile(path, reader, size) on the upload batch;
\* the path and the reader are named after the number of the call.
BatchAddFile(size, reader) ==
    /\ bpc = "assembling"
    /\ batch.kind = "upload"
    /\ nadd < MaxAdds
    /\ LET path == nadd + 1
           r == UploadBatchAddFile(batch, path, reader, size)
       IN /\ batch' = r.batch
          /\ ret' = r.err
          /\ call' = [op |-> "AddFile", path |-> path, size |-> size]
    /\ nadd' = nadd + 1
    /\ UNCHANGED <<bpc, sent, closed>>
    /\ UNCHANGED notBatch

\* batch_delete.go:33-41: AddFile(path) on the delete batch.
BatchAddPath ==
    /\ bpc = "assembling"
    /\ batch.kind = "delete"
    /\ nadd < MaxAdds
    /\ LET path == nadd + 1
           r == DeleteBatchAddFile(batch, path)
       IN /\ batch' = r.batch
          /\ ret' = r.err
          /\ call' = [op |-> "AddFile", path |-> path, size |-> 0]
    /\ nadd' = nadd + 1
    /\ UNCHANGED <<bpc, sent, closed>>
    /\ UNCHANGED notBatch

\* batch_upload.go:59-111: Upload(ctx) on the upload batch.
BatchUpload(env) ==
    /\ bpc = "assembling"
    /\ batch.kind = "upload"
    /\ LET r == UploadBatchUpload(batch, env)
       IN /\ ret' = r.err
          /\ sent' = r.reqs
          /\ closed' = r.closed
    /\ call' = [op |-> "Upload", path |-> 0, size |-> 0]
    /\ bpc' = "executed"
    /\ UNCHANGED <<batch, nadd>>
    /\ UNCHANGED notBatch

\* batch_delete.go:43-80: Delete(ctx) on the delete batch.
BatchDelete(env) ==
    /\ bpc = "assembling"
    /\ batch.kind = "delete"
    /\ LET r == DeleteBatchDelete(batch, env)
       IN /\ ret' = r.err
          /\ sent' = r.reqs
    /\ call' = [op |-> "Delete", path |-> 0, size |-> 0]
    /\ bpc' = "executed"
    /\ UNCHANGED <<batch, nadd, closed>>
    /\ UNCHANGED notBatch

BatchInit ==
    /\ batch = NewUploadBatch
    /\ bpc = "none"
    /\ nadd = 0
    /\ call = NoCall
    /\ ret = Nil
    /\ sent = <<>>
    /\ closed = {}

BatchNext ==
    \/ BatchNewUpload
    \/ BatchNewDelete
    \/ \E size \in FileSizes :
         \E reader \in Readers(nadd + 1, size) : BatchAddFile(size, reader)
    \/ BatchAddPath
    \/ \E env \in UploadEnvs(batch) : BatchUpload(env)
    \/ \E env \in Envs(1, 0) : BatchDelete(env)

-----------------------------------------------------------------------------
(* cli.Upload, src/unnamed/part_005. The goroutine that calls Upload walks *)
(* the source tree and hands full batches to the limiter; each batch is    *)
(* uploaded by a unit, the goroutine limiter.Go starts for uploadBatch.    *)

\* The number of regular files filepath.Walk hands to the visitor.
MaxWalk == 4

\* The number of batches Upload hands to the limiter, the last one included.
MaxUnits == 3

Units == 1..MaxUnits

NoUnit == [pc |-> "none", batch |-> NewUploadBatch, err |-> Nil]

ErrConcurrency == <<"concurrency must be positive">>

WalkError == <<"walk error">>

OpenError == <<"open error">>

NoFile == [size |-> 0, reader |-> [id |-> 0, closer |-> FALSE, avail |-> 0, end |-> "eof"]]

\* part_005:88-102: the reader the visitor makes for a file whose FileInfo
\* reports size bytes and that holds avail bytes when read: a file below
\* PutFileSizeLimit is read into memory, a larger one is opened.
VisitorReader(id, size, avail) ==
    [id |-> id, closer |-> ~(size < requestSizeLimit), avail |-> avail, end |-> "eof"]

\* The sizes of the files of the walk: an empty file, a file of which two
\* exceed requestSizeLimit together, and a file that exceeds it alone.
WalkSizes == {0, requestSizeLimit - 1, MaxFileSize}

\* What the walk hands to the visitor: a regular file with its size and
\* the bytes it holds when read (a file may shrink after it was listed), a
\* file that cannot be opened, a directory, or an error of the walk.
WalkEntries ==
    {[kind |-> "file", size |-> s, avail |-> s] : s \in WalkSizes}
    \cup {[kind |-> "file", size |-> requestSizeLimit - 1,
            avail |-> requestSizeLimit - 2]}
    \cup {[kind |-> "unreadable", size |-> 0, avail |-> 0]}
    \cup {[kind |-> k, size |-> 0, avail |-> 0] : k \in {"dir", "error"}}

\* part_005:27-35: Upload refuses a concurrency below 1, else derives a
\* cancellable context and builds the limiter.
UploadStart(concurrency) ==
    /\ upc = "start"
    /\ IF concurrency < 1
         THEN /\ upc' = "returned"
              /\ uret' = ErrConcurrency
              /\ UNCHANGED limit
         ELSE /\ upc' = "walk"
              /\ limit' = concurrency
              /\ UNCHANGED uret
    /\ UNCHANGED <<c, wg, err, visited, ubatch, held, units, nunits, tracker,
                   cancelled>>
    /\ UNCHANGED notUp

\* The visitor's AddFile, mutated: the file is not added.
VisitorAddFileDropped(b, entry, id) == [batch |-> b, err |-> Nil]

\* The visitor's AddFile, mutated: the file is put before the files the
\* batch holds.
VisitorAddFileFirst(b, entry, id) ==
    IF entry.kind = "unreadable"
      THEN [batch |-> b, err |-> WithStack(OpenError)]
    ELSE IF ~UploadBatchHasCapacity(b, entry.size)
      THEN [batch |-> b, err |-> ErrNoCapacity]
    ELSE [batch |-> [b EXCEPT
                       !.paths = <<id>> \o @,
                       !.readers = <<VisitorReader(id, entry.size, entry.avail)>> \o @,
                       !.sizes = <<entry.size>> \o @,
                       !.size = AddedSize(@, entry.size)],
          err |-> Nil]

\* part_005:103: batch.AddFile for the file the visitor holds; its error
\* ends the walk, and with it Upload (part_005:105-107, and the deferred
\* cancel of line 32).
VisitorAddFile(b, entry, id) ==
    IF entry.kind = "unreadable"
      THEN [batch |-> b, err |-> WithStack(OpenError)]
      ELSE UploadBatchAddFile(b, id, VisitorReader(id, entry.size, entry.avail),
                              entry.size)

\* The visitor returns e: nil goes on with the walk, anything else makes
\* filepath.Walk and Upload return it, running the deferred cancel.
VisitorReturns(e) ==
    IF e = Nil
      THEN /\ upc' = "walk"
           /\ UNCHANGED <<uret, cancelled>>
      ELSE /\ upc' = "returned"
           /\ uret' = e
           /\ cancelled' = TRUE

\* part_005:65-104: the visitor is called for the next entry of the walk.
Visit(entry) ==
    /\ upc = "walk"
    /\ visited < MaxWalk
    /\ visited' = IF entry.kind \in {"dir", "error"} THEN visited ELSE visited + 1
    /\ IF entry.kind = "error"
         THEN /\ VisitorReturns(WithStack(WalkError))
              /\ UNCHANGED <<wg, ubatch, held>>
       ELSE IF err # Nil
         THEN /\ VisitorReturns(err)
              /\ UNCHANGED <<wg, ubatch, held>>
       ELSE IF entry.kind = "dir"
         THEN /\ VisitorReturns(Nil)
              /\ UNCHANGED <<wg, ubatch, held>>
       ELSE IF ~UploadBatchHasCapacity(ubatch, entry.size)
         THEN \* limiter.Go: l.wg.Add(1), then the send on l.c
              /\ nunits + 1 < MaxUnits
              /\ wg' = wg + 1
              /\ upc' = "send"
              /\ held' = entry
              /\ UNCHANGED <<ubatch, uret, cancelled>>
       ELSE LET r == VisitorAddFile(ubatch, entry, visited + 1) IN
              /\ ubatch' = r.batch
              /\ VisitorReturns(r.err)
              /\ UNCHANGED <<wg, held>>
    /\ UNCHANGED <<limit, c, err, units, nunits, tracker>>
    /\ UNCHANGED notUp

\* part_005:78-81 and 83-103: the send of limiter.Go goes through, the
\* unit is started with the full batch, and the visitor adds the file it
\* holds to a new batch.
VisitSend ==
    /\ upc = "send"
    /\ CanSend(c, limit)
    /\ c' = c + 1
    /\ nunits' = nunits + 1
    /\ units' = [units EXCEPT ![nunits + 1] =
                    [pc |-> "spawned", batch |-> ubatch, err |-> Nil]]
    /\ LET r == VisitorAddFile(NewUploadBatch, held, visited) IN
         /\ ubatch' = r.batch
         /\ VisitorReturns(r.err)
    /\ held' = NoFile
    /\ UNCHANGED <<limit, wg, err, visited, tracker>>
    /\ UNCHANGED notUp

\* part_005:105-108: the walk is over; limiter.Go for the last batch begins.
WalkEnd ==
    /\ upc = "walk"
    /\ wg' = wg + 1
    /\ upc' = "lastSend"
    /\ UNCHANGED <<limit, c, err, visited, ubatch, held, units, nunits, tracker,
                   cancelled, uret>>
    /\ UNCHANGED notUp

\* part_005:108: the send of the last limiter.Go goes through.
LastSend ==
    /\ upc = "lastSend"
    /\ CanSend(c, limit)
    /\ c' = c + 1
    /\ nunits' = nunits + 1
    /\ units' = [units EXCEPT ![nunits + 1] =
                    [pc |-> "spawned", batch |-> ubatch, err |-> Nil]]
    /\ ubatch' = NewUploadBatch
    /\ upc' = "wait"
    /\ UNCHANGED <<limit, wg, err, visited, held, tracker, cancelled,
                   uret>>
    /\ UNCHANGED notUp

\* part_005:109-115: limiter.Wait returns, and Upload returns the error of
\* the box, or closes the tracker and returns nil; the deferred cancel runs.
UploadReturn ==
    /\ upc = "wait"
    /\ WaitCanReturn(wg)
    /\ upc' = "returned"
    /\ uret' = err
    /\ cancelled' = TRUE
    /\ UNCHANGED <<limit, c, wg, err, visited, ubatch, held, units, nunits,
                   tracker>>
    /\ UNCHANGED notUp

\* The caller cancels the context it passed to Upload (part_005:20, 31).
CallerCancel ==
    /\ upc \notin {"start", "returned"}
    /\ ~cancelled
    /\ cancelled' = TRUE
    /\ UNCHANGED <<limit, c, wg, err, upc, visited, ubatch, held, units, nunits,
                   tracker, uret>>
    /\ UNCHANGED notUp

\* The environments of batch.Upload(ctx) for a context that is, or is not,
\* cancelled: a request made with a cancelled context fails with the
\* context's error, and no request fails so while the context is live.
CtxEnvs(b, isCancelled) ==
    {e \in UploadEnvs(b) :
        IF isCancelled THEN e.failAt # 0 /\ e.failKind = "canceled"
        ELSE e.failKind = "transport"}

\* part_005:38-44: the unit starts: it adds its batch to the pending counts.
UnitStart(u) ==
    /\ units[u].pc = "spawned"
    /\ units' = [units EXCEPT ![u].pc = "uploading"]
    /\ tracker' = [tracker EXCEPT
                     !.filesPending = @ + Length(units[u].batch),
                     !.bytesPending = @ + Size(units[u].batch)]
    /\ UNCHANGED <<limit, c, wg, err, upc, visited, ubatch, held, nunits,
                   cancelled, uret>>
    /\ UNCHANGED notUp

\* part_005:46-61: batch.Upload(ctx) returns; on an error the unit takes
\* its batch out of the pending counts, on success it moves it to the
\* written counts and returns.
UnitUpload(u, env) ==
    /\ units[u].pc = "uploading"
    /\ LET b == units[u].batch
           r == UploadBatchUpload(b, env)
       IN IF r.err # Nil
            THEN /\ units' = [units EXCEPT ![u].pc = "report", ![u].err = r.err]
                 /\ tracker' = [tracker EXCEPT
                                  !.filesPending = @ - Length(b),
                                  !.bytesPending = @ - Size(b)]
            ELSE /\ units' = [units EXCEPT ![u].pc = "returned"]
                 /\ tracker' = [tracker EXCEPT
                                  !.filesWritten = @ + Length(b),
                                  !.filesPending = @ - Length(b),
                                  !.bytesWritten = @ + Size(b),
                                  !.bytesPending = @ - Size(b)]
    /\ UNCHANGED <<limit, c, wg, err, upc, visited, ubatch, held, nunits,
                   cancelled, uret>>
    /\ UNCHANGED notUp

\* part_005:51-53: asyncErr.Report(err), cancel(), and the unit returns.
\* One step: no other goroutine reads the box and the context together.
UnitReport(u) ==
    /\ units[u].pc = "report"
    /\ err' = AfterReport(err, units[u].err)
    /\ cancelled' = TRUE
    /\ units' = [units EXCEPT ![u].pc = "returned"]
    /\ UNCHANGED <<limit, c, wg, upc, visited, ubatch, held, nunits, tracker,
                   uret>>
    /\ UNCHANGED notUp

\* limiter.go:31-35: the deferred function of the goroutine: the receive
\* from l.c, then l.wg.Done(). One step: a send that the receive lets
\* through commutes with Done, and Wait reads the counter only.
UnitExit(u) ==
    /\ units[u].pc = "returned"
    /\ c' = ReleaseSlot(c)
    /\ wg' = wg - 1
    /\ units' = [units EXCEPT ![u].pc = "done"]
    /\ UNCHANGED <<limit, err, upc, visited, ubatch, held, nunits, tracker,
                   cancelled, uret>>
    /\ UNCHANGED notUp

UpInit ==
    /\ upc = "start"
    /\ visited = 0
    /\ ubatch = NewUploadBatch
    /\ held = NoFile
    /\ units = [u \in Units |-> NoUnit]
    /\ nunits = 0
    /\ tracker = [filesPending |-> 0, filesWritten |-> 0,
                  bytesPending |-> 0, bytesWritten |-> 0]
    /\ cancelled = FALSE
    /\ uret = Nil

UpNext ==
    \/ \E concurrency \in 0..MaxLimit : UploadStart(concurrency)
    \/ \E entry \in WalkEntries : Visit(entry)
    \/ VisitSend
    \/ WalkEnd
    \/ LastSend
    \/ UploadReturn
    \/ CallerCancel
    \/ \E u \in Units : UnitStart(u)
    \/ \E u \in Units :
         /\ units[u].pc = "uploading"
         /\ \E env \in CtxEnvs(units[u].batch, cancelled) : UnitUpload(u, env)
    \/ \E u \in Units : UnitReport(u)
    \/ \E u \in Units : UnitExit(u)

-----------------------------------------------------------------------------
(* BatchDownloader, src/client/batch_download.go:18-71. The iterator it    *)
(* reads is a record: items is what the listing holds, pos the number of   *)
(* items handed out, calls the number of Next calls made on it, failAt the *)
(* number of the call that fails (0: none).                                *)

\* The number of file infos of a listing.
MaxInfos == 4

\* The number of Next calls made on one downloader: enough to drain the
\* longest listing and to call Next again after Done.
MaxNext == MaxInfos + 2

\* file_iterator.go:42: the sentinel ErrDone.
ErrDone == <<"done">>

\* An error of the iterator other than ErrDone (file_iterator.go:50-59).
IterError == <<"iterator error">>

\* The nil *api.FileInfo.
NoInfo == [id |-> 0, size |-> 0]

\* The paths of a sequence of file infos.
Ids(infos) == [i \in 1..Len(infos) |-> infos[i].id]

\* The sizes of the listed files: around and above requestSizeLimit.
InfoSizes == {0, 1, requestSizeLimit - 1, MaxFileSize}

\* The listings: the n-th file info has id n.
RECURSIVE Listings(_)
Listings(n) ==
    IF n = 0 THEN {<<>>}
    ELSE {Append(l, [id |-> n, size |-> sz]) : l \in Listings(n - 1), sz \in InfoSizes}

\* file_iterator.go:34-68 FileIterator.Next: the next item, ErrDone when
\* the listing is exhausted (and again on every later call), or an error.
FileIteratorNext(it) ==
    LET k == it.calls + 1 IN
    IF it.failAt = k
      THEN [it |-> [it EXCEPT !.calls = k], info |-> NoInfo, err |-> IterError]
    ELSE IF it.pos >= Len(it.items)
      THEN [it |-> [it EXCEPT !.calls = k], info |-> NoInfo, err |-> ErrDone]
    ELSE [it |-> [it EXCEPT !.calls = k, !.pos = it.pos + 1],
          info |-> it.items[it.pos + 1], err |-> Nil]

StatError == <<"stat error">>

DigestError == <<"digest error">>

\* The digest the listing gives for a file: the digest of its content.
RemoteDigest(info) == info.id

\* The comparison of the digests, mutated: any local digest passes.
SameDigestAlways(digest, info) == TRUE

\* cli/dataset.go:303: bytes.Equal(digest, info.Digest).
SameDigest(digest, info) == digest = RemoteDigest(info)

\* cli/dataset.go:280-313 modifiedIterator.Next over the local files
\* it.local, one per listed file: it hands on the errors and the Done of
\* the iterator it wraps and every file whose local copy is missing or
\* differs in size or digest, and marks a file whose local copy is the
\* same as written through its tracker before it takes the next one.
RECURSIVE ModifiedIteratorNext(_)
ModifiedIteratorNext(it) ==
    LET r == FileIteratorNext(it) IN
    IF r.err # Nil THEN r
    ELSE LET finfo == r.it.local[r.info.id] IN
         IF finfo.kind = "absent" THEN r
         ELSE IF finfo.kind = "statError"
           THEN [it |-> r.it, info |-> NoInfo, err |-> WithStack(StatError)]
         ELSE IF finfo.size # r.info.size THEN r
         ELSE IF ~finfo.readable
           THEN [it |-> r.it, info |-> NoInfo, err |-> WithStack(DigestError)]
         ELSE IF ~SameDigest(finfo.digest, r.info) THEN r
         ELSE ModifiedIteratorNext(
                [r.it EXCEPT !.skipped = Append(@, r.info.id),
                             !.written = [files |-> @.files + 1,
                                          bytes |-> @.bytes + r.info.size]])

\* batch_download.go:23, 37, 47: d.files.Next() on the Iterator the
\* downloader was given: the listing itself, or Download's modifiedIterator.
IterNext(it) ==
    IF "local" \in DOMAIN it THEN ModifiedIteratorNext(it) ELSE FileIteratorNext(it)

\* dataset.go:133-135 DownloadBatch.
DownloadBatch(it) == [files |-> it, nextInfo |-> NoInfo]

\* The cut of the downloader, mutated: the size limit is exclusive.
DownloaderCutsExclusive(b, batchSize, info) ==
    Len(b) >= batchSizeLimit \/ batchSize + info.size >= requestSizeLimit

\* batch_download.go:56: adding info would make the batch too large.
DownloaderCuts(b, batchSize, info) ==
    Len(b) >= batchSizeLimit \/ batchSize + info.size > requestSizeLimit

\* The deferral of the overflowing item, mutated: the item is dropped.
DeferredDropped(info) == NoInfo

\* batch_download.go:57: d.nextInfo = info.
Deferred(info) == info

\* The end of the listing inside the loop, mutated: Next returns Done and
\* drops the batch.
LoopAtDoneReturnsDone(it, b, batchSize) ==
    [files |-> it, nextInfo |-> NoInfo, batch |-> <<>>, size |-> 0, err |-> ErrDone]

\* batch_download.go:48-50 and 65-70: ErrDone inside the loop ends the
\* batch, which Next returns.
LoopAtDone(it, b, batchSize) ==
    [files |-> it, nextInfo |-> NoInfo, batch |-> b, size |-> batchSize, err |-> Nil]

\* batch_download.go:46-63: the loop of Next on the batch b of batchSize bytes.
RECURSIVE DownloaderLoop(_, _, _)
DownloaderLoop(it, b, batchSize) ==
    LET r == IterNext(it) IN
    IF r.err = ErrDone
      THEN LoopAtDone(r.it, b, batchSize)
    ELSE IF r.err # Nil
      THEN [files |-> r.it, nextInfo |-> NoInfo, batch |-> <<>>, size |-> 0,
            err |-> r.err]
    ELSE IF DownloaderCuts(b, batchSize, r.info)
      THEN [files |-> r.it, nextInfo |-> Deferred(r.info), batch |-> b,
            size |-> batchSize, err |-> Nil]
    ELSE DownloaderLoop(r.it, Append(b, r.info), batchSize + r.info.size)

\* batch_download.go:30-71 BatchDownloader.Next: the downloader it leaves,
\* the infos and the size of the FileBatch it returns, and the error.
BatchDownloaderNext(d) ==
    IF d.nextInfo # NoInfo
      THEN DownloaderLoop(d.files, <<d.nextInfo>>, d.nextInfo.size)
      ELSE LET r == IterNext(d.files) IN
           IF r.err # Nil
             THEN [files |-> r.it, nextInfo |-> NoInfo, batch |-> <<>>,
                   size |-> 0, err |-> r.err]
             ELSE DownloaderLoop(r.it, <<r.info>>, r.info.size)

\* dataset.go:133-135: a downloader is made over a listing.
DownloaderNew(items, failAt) ==
    /\ dpc = "new"
    /\ down' = DownloadBatch([items |-> items, pos |-> 0, calls |-> 0,
                              failAt |-> failAt])
    /\ dpc' = "open"
    /\ UNCHANGED <<dcalls, dbatches, dret>>
    /\ UNCHANGED notDown

\* batch_download.go:30-71: one call of Next on the downloader.
DownloaderNext ==
    /\ dpc = "open"
    /\ dcalls < MaxNext
    /\ LET r == BatchDownloaderNext(down) IN
         /\ down' = [files |-> r.files, nextInfo |-> r.nextInfo]
         /\ dret' = r.err
         /\ dbatches' = IF r.err = Nil
                          THEN Append(dbatches, [infos |-> r.batch, size |-> r.size])
                          ELSE dbatches
    /\ dcalls' = dcalls + 1
    /\ UNCHANGED dpc
    /\ UNCHANGED notDown

DownInit ==
    /\ down = DownloadBatch([items |-> <<>>, pos |-> 0, calls |-> 0, failAt |-> 0])
    /\ dpc = "new"
    /\ dcalls = 0
    /\ dbatches = <<>>
    /\ dret = Nil

DownNext ==
    \/ /\ dpc = "new"
       /\ \E n \in 0..MaxInfos : \E items \in Listings(n) :
            \E failAt \in 0..(MaxInfos + 1) : DownloaderNew(items, failAt)
    \/ DownloaderNext

-----------------------------------------------------------------------------
(* Ranged reads, src/client/dataset.go:189-274 *)

ErrNegativeOffset == <<"offset must not be negative">>

ErrZeroLength == <<"length must not be zero">>

\* dataset.go:257-261: the Range header of the request: none, from offset
\* to the end of the file, or the length bytes from offset.
RangeHeader(offset, length) ==
    IF offset # 0 /\ length < 0 THEN [first |-> offset, last |-> "end"]
    ELSE IF length > 0 THEN [first |-> offset, last |-> ToString(offset + length - 1)]
    ELSE [first |-> 0, last |-> "none"]

\* dataset.go:240-274 readFileRange for a request that ends as kind says:
\* the error, the requests sent and whether a response body is handed back.
ReadFileRangeOnce(path, offset, length, kind) ==
    LET get == [method |-> "GET", url |-> <<"files", path>>,
                range |-> RangeHeader(offset, length)]
    IN
    IF offset < 0 THEN [err |-> ErrNegativeOffset, reqs |-> <<>>, open |-> FALSE]
    ELSE IF length = 0 THEN [err |-> ErrZeroLength, reqs |-> <<>>, open |-> FALSE]
    ELSE IF kind = "newRequest"
      THEN [err |-> WithStack(NewRequestError), reqs |-> <<>>, open |-> FALSE]
    ELSE IF DoError(kind) # Nil
      THEN [err |-> WithStack(DoError(kind)), reqs |-> <<get>>, open |-> FALSE]
    ELSE IF kind = "notFound"
      THEN [err |-> ErrFileNotFound, reqs |-> <<get>>, open |-> FALSE]
    ELSE IF ErrorFromResponse(kind) # Nil
      THEN [err |-> ErrorFromResponse(kind), reqs |-> <<get>>, open |-> FALSE]
    ELSE [err |-> Nil, reqs |-> <<get>>, open |-> TRUE]

-----------------------------------------------------------------------------
(* FileBatch, src/client/batch_download.go:73-180. The outcome of one Next *)
(* call says how the request it makes, if any, ends, and whether the       *)
(* response has a part to read.                                            *)

ErrMediaParse == <<"mime: no media type">>

ErrMediaType == <<"unexpected media type">>

ErrBatch == <<"batch error">>

FileBatchOutcomes ==
    {"ok", "newRequest", "transport", "canceled", "status", "notFound",
     "mediaParse", "mediaType", "noPart"}

\* batch_download.go:65-70: the FileBatch Next returns for infos.
NewFileBatch(infos, size) ==
    [infos |-> infos, size |-> size, err |-> Nil, read |-> 0, resp |-> "nil",
     mr |-> FALSE, parts |-> 0]

\* The info a successful call returns, mutated: always the first.
InfoReturnedFirst(b) == b.infos[1]

\* batch_download.go:178: info := b.infos[b.read].
InfoReturned(b) == b.infos[b.read + 1]

\* batch_download.go:132-171: the multipart request of the first access:
\* the batch it leaves, the error and the requests sent.
OpenMultipart(b, out) ==
    LET post == [method |-> "POST", url |-> <<"batch/download">>,
                 parts |-> Ids(b.infos)]
    IN
    IF out = "newRequest"
      THEN [b |-> b, err |-> WithStack(NewRequestError), reqs |-> <<>>]
    ELSE IF DoError(out) # Nil
      THEN [b |-> b, err |-> WithStack(DoError(out)), reqs |-> <<post>>]
    ELSE IF ErrorFromResponse(out) # Nil
      THEN [b |-> [b EXCEPT !.resp = "open"], err |-> ErrorFromResponse(out),
            reqs |-> <<post>>]
    ELSE IF out = "mediaParse"
      THEN [b |-> [b EXCEPT !.resp = "open"], err |-> WithStack(ErrMediaParse),
            reqs |-> <<post>>]
    ELSE IF out = "mediaType"
      THEN [b |-> [b EXCEPT !.resp = "open"], err |-> ErrMediaType,
            reqs |-> <<post>>]
    ELSE [b |-> [b EXCEPT !.resp = "open", !.mr = TRUE], err |-> Nil,
          reqs |-> <<post>>]

\* batch_download.go:115-180 next, before the deferred b.read++.
FileBatchNextInner(b, out) ==
    IF b.read >= Len(b.infos)
      THEN [b |-> b, info |-> NoInfo, part |-> 0, err |-> ErrDone, reqs |-> <<>>]
    ELSE IF Len(b.infos) = 1
      THEN LET r == ReadFileRangeOnce(b.infos[1].id, 0, -1, out) IN
           IF r.err # Nil
             THEN [b |-> b, info |-> NoInfo, part |-> 0, err |-> r.err,
                   reqs |-> r.reqs]
             ELSE [b |-> b, info |-> b.infos[1], part |-> 1, err |-> Nil,
                   reqs |-> r.reqs]
    ELSE LET o == IF b.mr THEN [b |-> b, err |-> Nil, reqs |-> <<>>]
                  ELSE OpenMultipart(b, out)
         IN
         IF o.err # Nil
           THEN [b |-> o.b, info |-> NoInfo, part |-> 0, err |-> o.err,
                 reqs |-> o.reqs]
         ELSE IF out = "noPart"
           THEN [b |-> o.b, info |-> NoInfo, part |-> 0, err |-> ErrBatch,
                 reqs |-> o.reqs]
         ELSE [b |-> [o.b EXCEPT !.parts = o.b.parts + 1],
               info |-> InfoReturned(o.b), part |-> o.b.parts + 1, err |-> Nil,
               reqs |-> o.reqs]

\* The sticky error, mutated: the error is not kept.
KeptErrorForgotten(old, e) == old

\* batch_download.go:106-107: b.err = err.
KeptError(old, e) == e

\* batch_download.go:108-110: if b.resp != nil { b.resp.Body.Close() }.
ClosedBody(resp) == IF resp # "nil" THEN "closed" ELSE resp

\* batch_download.go:100-113 FileBatch.Next.
FileBatchNext(b, out) ==
    IF b.err # Nil
      THEN [b |-> b, info |-> NoInfo, part |-> 0, err |-> b.err, reqs |-> <<>>]
    ELSE LET r == FileBatchNextInner(b, out)
             b1 == [r.b EXCEPT !.read = r.b.read + 1]
         IN IF r.err # Nil
              THEN [b |-> [b1 EXCEPT !.err = KeptError(b1.err, r.err),
                                     !.resp = ClosedBody(b1.resp)],
                    info |-> r.info, part |-> r.part, err |-> r.err,
                    reqs |-> r.reqs]
              ELSE [b |-> b1, info |-> r.info, part |-> r.part, err |-> Nil,
                    reqs |-> r.reqs]

NoReturn == [info |-> NoInfo, part |-> 0, err |-> Nil]

\* batch_download.go:65-70: a FileBatch is made of the first n files of a
\* listing.
FileBatchNew(infos) ==
    /\ fpc = "new"
    /\ fb' = NewFileBatch(infos, 0)
    /\ fpc' = "open"
    /\ UNCHANGED <<fcalls, fret, fgot, freqs>>
    /\ UNCHANGED notFb

\* batch_download.go:100-113: one call of Next on the FileBatch.
FileBatchCall(out) ==
    /\ fpc = "open"
    /\ fcalls < MaxNext
    /\ LET r == FileBatchNext(fb, out) IN
         /\ fb' = r.b
         /\ fret' = [info |-> r.info, part |-> r.part, err |-> r.err]
         /\ fgot' = IF r.err = Nil
                      THEN Append(fgot, [info |-> r.info, part |-> r.part])
                      ELSE fgot
         /\ freqs' = freqs \o r.reqs
    /\ fcalls' = fcalls + 1
    /\ UNCHANGED fpc
    /\ UNCHANGED notFb

FbInit ==
    /\ fb = NewFileBatch(<<>>, 0)
    /\ fpc = "new"
    /\ fcalls = 0
    /\ fret = NoReturn
    /\ fgot = <<>>
    /\ freqs = <<>>

FbNext ==
    \/ \E n \in 1..batchSizeLimit :
         FileBatchNew([i \in 1..n |-> [id |-> i, size |-> 1]])
    \/ \E out \in FileBatchOutcomes : FileBatchCall(out)

-----------------------------------------------------------------------------
(* cli.Download, src/cli/dataset.go:161-270. The goroutine that calls      *)
(* Download takes batches from a BatchDownloader and hands each to the     *)
(* limiter; a unit reads the files of its batch and writes them.           *)

MkdirError == <<"mkdir error">>

WriteError == <<"write error">>

\* The sum of the updates a unit has sent to the tracker.
NoUpdates == [filesPending |-> 0, bytesPending |-> 0,
              filesWritten |-> 0, bytesWritten |-> 0]

\* progress.go: a ProgressUpdate is added to the counts field by field.
Updated(t, dfp, dbp, dfw, dbw) ==
    [filesPending |-> t.filesPending + dfp, bytesPending |-> t.bytesPending + dbp,
     filesWritten |-> t.filesWritten + dfw, bytesWritten |-> t.bytesWritten + dbw]

\* A unit: its position, its FileBatch, the sum of its updates and the
\* number of its reportError calls.
NoDUnit == [pc |-> "none", fb |-> NewFileBatch(<<>>, 0), sum |-> NoUpdates,
            reports |-> 0]

NoBatch == [infos |-> <<>>, size |-> 0]

\* The listings Download is run on: small files that share a batch and
\* files that fill one.
RECURSIVE DlListings(_)
DlListings(n) ==
    IF n = 0 THEN {<<>>}
    ELSE {Append(l, [id |-> n, size |-> sz]) :
             l \in DlListings(n - 1), sz \in {1, requestSizeLimit}}

\* How a Next call of a unit ends under a context that is, or is not,
\* cancelled.
DlOutcomes(isCancelled) ==
    IF isCancelled THEN {"canceled", "noPart"} ELSE {"ok", "status", "noPart"}

\* dataset.go:169-188: the concurrency check, the context, the target
\* directory, the iterator, the downloader and the limiter.
DownloadStart(concurrency, items, failAt, mkdirFails) ==
    /\ dlpc = "start"
    /\ IF concurrency < 1
         THEN /\ dlpc' = "returned"
              /\ dlret' = ErrConcurrency
              /\ UNCHANGED <<limit, down, cancelled>>
       ELSE IF mkdirFails
         THEN /\ dlpc' = "returned"
              /\ dlret' = MkdirError
              /\ cancelled' = TRUE
              /\ UNCHANGED <<limit, down>>
       ELSE /\ dlpc' = "loop"
            /\ limit' = concurrency
            /\ down' = DownloadBatch([items |-> items, pos |-> 0, calls |-> 0,
                                      failAt |-> failAt])
            /\ UNCHANGED <<dlret, cancelled>>
    /\ UNCHANGED <<c, wg, err, tracker, dcalls, dbatches, dret, dlheld, dunits,
                   dnunits>>
    /\ UNCHANGED notDl

\* dataset.go:189-202: one turn of the loop: the error of the box ends
\* Download; otherwise downloader.Next, whose Done ends the loop and whose
\* error ends Download; otherwise limiter.Go begins with l.wg.Add(1).
DownloadLoop ==
    /\ dlpc = "loop"
    /\ IF err # Nil
         THEN /\ dlpc' = "returned"
              /\ dlret' = err
              /\ cancelled' = TRUE
              /\ UNCHANGED <<wg, down, dcalls, dbatches, dret, dlheld>>
         ELSE LET r == BatchDownloaderNext(down) IN
              /\ r.err = Nil => dnunits < MaxUnits
              /\ down' = [files |-> r.files, nextInfo |-> r.nextInfo]
              /\ dcalls' = dcalls + 1
              /\ dret' = r.err
              /\ IF r.err = ErrDone
                   THEN /\ dlpc' = "wait"
                        /\ UNCHANGED <<wg, dbatches, dlheld, dlret, cancelled>>
                 ELSE IF r.err # Nil
                   THEN /\ dlpc' = "returned"
                        /\ dlret' = r.err
                        /\ cancelled' = TRUE
                        /\ UNCHANGED <<wg, dbatches, dlheld>>
                 ELSE /\ dlpc' = "send"
                      /\ wg' = wg + 1
                      /\ dlheld' = [infos |-> r.batch, size |-> r.size]
                      /\ dbatches' = Append(dbatches, dlheld')
                      /\ UNCHANGED <<dlret, cancelled>>
    /\ UNCHANGED <<limit, c, err, tracker, dunits, dnunits>>
    /\ UNCHANGED notDl

\* dataset.go:202 and limiter.go:29-30: the send of limiter.Go goes
\* through and the unit is started.
DownloadSend ==
    /\ dlpc = "send"
    /\ CanSend(c, limit)
    /\ c' = c + 1
    /\ dnunits' = dnunits + 1
    /\ dunits' = [dunits EXCEPT ![dnunits + 1] =
                     [pc |-> "spawned",
                      fb |-> NewFileBatch(dlheld.infos, dlheld.size),
                      sum |-> NoUpdates, reports |-> 0]]
    /\ dlheld' = NoBatch
    /\ dlpc' = "loop"
    /\ UNCHANGED <<limit, wg, err, tracker, cancelled, down, dcalls, dbatches,
                   dret, dlret>>
    /\ UNCHANGED notDl

\* dataset.go:263-269: limiter.Wait returns, and Download returns the error
\* of the box, or closes the tracker and returns nil; the deferred cancel
\* runs.
DownloadReturn ==
    /\ dlpc = "wait"
    /\ WaitCanReturn(wg)
    /\ dlpc' = "returned"
    /\ dlret' = err
    /\ cancelled' = TRUE
    /\ UNCHANGED <<limit, c, wg, err, tracker, down, dcalls, dbatches, dret,
                   dlheld, dunits, dnunits>>
    /\ UNCHANGED notDl

\* The caller cancels the context it passed to Download (dataset.go:162, 173).
DownloadCallerCancel ==
    /\ dlpc \notin {"start", "returned"}
    /\ ~cancelled
    /\ cancelled' = TRUE
    /\ UNCHANGED <<limit, c, wg, err, tracker, down, dcalls, dbatches, dret,
                   dlpc, dlheld, dunits, dnunits, dlret>>
    /\ UNCHANGED notDl

\* dataset.go:203-209: the unit starts: it adds its batch to the pending
\* counts.
DUnitStart(u) ==
    /\ dunits[u].pc = "spawned"
    /\ dunits' = [dunits EXCEPT
                    ![u].pc = "running",
                    ![u].sum = Updated(@, Len(dunits[u].fb.infos),
                                       dunits[u].fb.size, 0, 0)]
    /\ tracker' = Updated(tracker, Len(dunits[u].fb.infos), dunits[u].fb.size, 0, 0)
    /\ UNCHANGED <<limit, c, wg, err, cancelled, down, dcalls, dbatches, dret,
                   dlpc, dlheld, dnunits, dlret>>
    /\ UNCHANGED notDl

\* dataset.go:211-218 reportError: the pending counts are taken back, the
\* error is reported and the context is cancelled.
ReportError(e, b) ==
    /\ tracker' = Updated(tracker, 0 - Len(b.infos), 0 - b.size, 0, 0)
    /\ err' = AfterReport(err, e)
    /\ cancelled' = TRUE

\* dataset.go:220-260: one turn of the unit's loop: batch.Next, whose Done
\* ends the loop and moves the batch to the written counts, and whose error
\* is reported and ends the unit; otherwise the file is written, and an
\* error of the write is reported inside the function literal of line 232,
\* whose return leaves the loop running.
DUnitFile(u, out, writeFails) ==
    /\ dunits[u].pc = "running"
    /\ LET b == dunits[u].fb
           r == FileBatchNext(b, out)
           reported == [dunits EXCEPT
                          ![u].sum = Updated(@, 0 - Len(b.infos), 0 - b.size, 0, 0),
                          ![u].reports = @ + 1]
       IN IF r.err = ErrDone
            THEN /\ dunits' = [dunits EXCEPT
                                ![u].pc = "returned", ![u].fb = r.b,
                                ![u].sum = Updated(@, 0 - Len(b.infos), 0 - b.size,
                                                   Len(b.infos), b.size)]
                 /\ tracker' = Updated(tracker, 0 - Len(b.infos), 0 - b.size,
                                       Len(b.infos), b.size)
                 /\ UNCHANGED <<err, cancelled>>
          ELSE IF r.err # Nil
            THEN /\ dunits' = [reported EXCEPT ![u].pc = "returned", ![u].fb = r.b]
                 /\ ReportError(WithStack(r.err), b)
          ELSE IF writeFails
            THEN /\ dunits' = [reported EXCEPT ![u].fb = r.b]
                 /\ ReportError(WithStack(WriteError), b)
          ELSE /\ dunits' = [dunits EXCEPT ![u].fb = r.b]
               /\ UNCHANGED <<tracker, err, cancelled>>
    /\ UNCHANGED <<limit, c, wg, down, dcalls, dbatches, dret, dlpc, dlheld,
                   dnunits, dlret>>
    /\ UNCHANGED notDl

\* limiter.go:31-35: the deferred function of the goroutine: the receive
\* from l.c, then l.wg.Done().
DUnitExit(u) ==
    /\ dunits[u].pc = "returned"
    /\ c' = ReleaseSlot(c)
    /\ wg' = wg - 1
    /\ dunits' = [dunits EXCEPT ![u].pc = "done"]
    /\ UNCHANGED <<limit, err, tracker, cancelled, down, dcalls, dbatches, dret,
                   dlpc, dlheld, dnunits, dlret>>
    /\ UNCHANGED notDl

DlInit ==
    /\ dlpc = "start"
    /\ dlheld = NoBatch
    /\ dunits = [u \in Units |-> NoDUnit]
    /\ dnunits = 0
    /\ dlret = Nil

DlNext ==
    \/ /\ dlpc = "start"
       /\ \E concurrency \in 0..MaxLimit : \E n \in 0..batchSizeLimit :
            \E items \in DlListings(n) : \E failAt \in 0..2 :
              \E mkdirFails \in BOOLEAN :
                DownloadStart(concurrency, items, failAt, mkdirFails)
    \/ DownloadLoop
    \/ DownloadSend
    \/ DownloadReturn
    \/ DownloadCallerCancel
    \/ \E u \in Units : DUnitStart(u)
    \/ \E u \in Units : \E out \in DlOutcomes(cancelled) :
         \E writeFails \in BOOLEAN : DUnitFile(u, out, writeFails)
    \/ \E u \in Units : DUnitExit(u)

-----------------------------------------------------------------------------
(* ReadFileRange, src/client/dataset.go:199-238: the goroutine that copies *)
(* the response into the pipe and reissues the request when the stream     *)
(* fails. The file has FileLen bytes, at positions 0..FileLen-1.           *)

\* The length of the stored file.
FileLen == 4

\* The number of io.Copy calls that may end in an error.
MaxFails == 2

\* The error the i-th io.Copy call gets from the response body.
StreamError(i) == <<"stream error", ToString(i)>>

\* The end of the pipe as the consumer sees it while the writer is open.
PipeOpen == <<"pipe open">>

\* The position after the last byte the service sends for a request.
RangeEnd(offset, length) ==
    IF length < 0 THEN FileLen ELSE Min(offset + length, FileLen)

\* How a ranged request may end: the service cannot satisfy a range that
\* starts at or after the end of the file.
ReadKinds(offset) ==
    IF offset >= FileLen THEN {"status", "transport"}
    ELSE {"ok", "transport", "notFound", "status"}

\* The positions first..(last - 1), in order.
Positions(first, last) ==
    IF last <= first THEN <<>> ELSE [i \in 1..(last - first) |-> first + i - 1]

\* The remaining length after n bytes, mutated: not reduced.
RemainingUnchanged(length, n) == length

\* dataset.go:226: length -= n.
Remaining(length, n) == length - n

\* The fatal failure, mutated: a failure is never fatal.
FatalNever(n) == FALSE

\* dataset.go:221: a failure that delivered no byte.
Fatal(n) == n = 0

\* dataset.go:214: defer r.Close() closes the body r names when the defer
\* statement runs, the first one.
CloseFirst(ss) == IF ss = <<>> THEN ss ELSE [ss EXCEPT ![1] = TRUE]

\* dataset.go:228: r.Close() on the body that failed, the last one opened.
CloseLast(ss) == [ss EXCEPT ![Len(ss)] = TRUE]

\* dataset.go:199-212, 237: the call: the first request; its error is
\* returned, otherwise the pipe is made and the goroutine started.
ReadFileRange(offset, length, kind) ==
    /\ rfpc = "idle"
    /\ LET r == ReadFileRangeOnce(1, offset, length, kind) IN
         /\ preqs' = [i \in 1..Len(r.reqs) |-> [range |-> r.reqs[i].range, at |-> 0]]
         /\ rfret' = r.err
         /\ rfpc' = IF r.err = Nil THEN "copying" ELSE "failed"
         /\ streams' = IF r.open THEN <<FALSE>> ELSE <<>>
    /\ roffset' = offset
    /\ rlength' = length
    /\ orig' = [offset |-> offset, length |-> length]
    /\ UNCHANGED <<attempts, delivered, pipeErr>>
    /\ UNCHANGED notRead

\* dataset.go:216-234: one turn of the loop: io.Copy moves n bytes into the
\* pipe and ends at the end of the body (fails = FALSE) or in an error;
\* kind is how the reissued request, if one is made, ends.
ReadLoop(n, fails, kind) ==
    /\ rfpc = "copying"
    /\ n <= RangeEnd(roffset, rlength) - roffset
    /\ ~fails => n = RangeEnd(roffset, rlength) - roffset
    /\ fails => Len(SelectSeq(attempts, LAMBDA a : a.err # Nil)) < MaxFails
    /\ LET i == Len(attempts) + 1
           e == IF fails THEN StreamError(i) ELSE Nil
       IN
       /\ attempts' = Append(attempts, [n |-> n, err |-> e])
       /\ delivered' = delivered \o Positions(roffset, roffset + n)
       /\ IF e = Nil
            THEN /\ pipeErr' = Nil
                 /\ rfpc' = "done"
                 /\ streams' = CloseFirst(streams)
                 /\ UNCHANGED <<roffset, rlength, preqs>>
          ELSE IF Fatal(n)
            THEN /\ pipeErr' = WithStack(e)
                 /\ rfpc' = "done"
                 /\ streams' = CloseFirst(streams)
                 /\ UNCHANGED <<roffset, rlength, preqs>>
          ELSE LET r == ReadFileRangeOnce(1, roffset + n, Remaining(rlength, n), kind)
               IN
               /\ roffset' = roffset + n
               /\ rlength' = Remaining(rlength, n)
               /\ preqs' = preqs \o
                     [j \in 1..Len(r.reqs) |->
                        [range |-> r.reqs[j].range, at |-> Len(delivered')]]
               /\ IF r.err # Nil
                    THEN /\ pipeErr' = r.err
                         /\ rfpc' = "done"
                         /\ streams' = CloseFirst(CloseLast(streams))
                    ELSE /\ streams' = Append(CloseLast(streams), FALSE)
                         /\ UNCHANGED <<pipeErr, rfpc>>
    /\ UNCHANGED <<orig, rfret>>
    /\ UNCHANGED notRead

ReadInit ==
    /\ rfpc = "idle"
    /\ roffset = 0
    /\ rlength = 0
    /\ orig = [offset |-> 0, length |-> 0]
    /\ streams = <<>>
    /\ attempts = <<>>
    /\ delivered = <<>>
    /\ preqs = <<>>
    /\ pipeErr = PipeOpen
    /\ rfret = Nil

ReadNext ==
    \/ \E offset \in -1..FileLen : \E length \in -1..(FileLen + 1) :
         \E kind \in ReadKinds(offset) \cup {"newRequest"} :
           ReadFileRange(offset, length, kind)
    \/ \E n \in 0..FileLen : \E fails \in BOOLEAN :
         \E kind \in ReadKinds(roffset + n) \cup {"newRequest"} :
           ReadLoop(n, fails, kind)

-----------------------------------------------------------------------------
(* One WriteFile call, src/client/dataset.go:283-334, and the chunked      *)
(* upload it makes for a file above requestSizeLimit (part_009:21-84).     *)

\* The largest declared size: three chunks, the last one partial.
MaxWrite == 2 * requestSizeLimit + 1

NoWrite == [size |-> 0, avail |-> 0, end |-> "eof",
            env |-> [failAt |-> 0, failKind |-> "transport", digestAt |-> 0]]

NoUpload == [called |-> FALSE, digest |-> Nil, err |-> Nil, reqs |-> <<>>]

\* The source handed to WriteFile: it yields avail bytes, which may be
\* fewer or more than the declared size, and then ends or fails.
WriteSource(avail, end) == [id |-> 1, closer |-> FALSE, avail |-> avail, end |-> end]

\* dataset.go:283-334: WriteFile(ctx, filename, source, size) is called and
\* returns; for a size above requestSizeLimit it calls upload on the
\* limited source (dataset.go:290, 295-297).
WriteFileCall(size, avail, end, env) ==
    /\ wpc = "idle"
    /\ wcall' = [size |-> size, avail |-> avail, end |-> end, env |-> env]
    /\ wup' = IF Chunked(size)
                THEN LET u == ClientUpload(LimitReader(WriteSource(avail, end), size),
                                           size, env)
                     IN [called |-> TRUE, digest |-> u.digest, err |-> u.err,
                         reqs |-> u.reqs]
                ELSE NoUpload
    /\ wret' = WriteFile(1, WriteSource(avail, end), size, env)
    /\ wpc' = "done"
    /\ UNCHANGED notWrite

\* The caller makes another call.
WriteAgain ==
    /\ wpc = "done"
    /\ wpc' = "idle"
    /\ wcall' = NoWrite
    /\ wup' = NoUpload
    /\ wret' = [err |-> Nil, reqs |-> <<>>]
    /\ UNCHANGED notWrite

WriteInit ==
    /\ wpc = "idle"
    /\ wcall = NoWrite
    /\ wup = NoUpload
    /\ wret = [err |-> Nil, reqs |-> <<>>]

WriteNext ==
    \/ \E size \in 0..MaxWrite : \E avail \in 0..(size + requestSizeLimit) :
         \E end \in {"eof", "err"} :
           \E env \in Envs(Chunks(size) + 2, Chunks(size)) :
             WriteFileCall(size, avail, end, env)
    \/ WriteAgain

-----------------------------------------------------------------------------
(* One HTTP request of an operation. Batch upload, batch delete, the PUT   *)
(* of a file and the ranged GET go through Client.do, client.go:90-98; the *)
(* batch download and the PATCH of an upload go through the client that    *)
(* newRetryableClient configures, part_007:170-184, whose Do runs the      *)
(* retry loop of go-retryablehttp.                                         *)

RetryMax == 9

\* The operations that send through Client.do (batch_upload.go:105,
\* batch_delete.go:73, dataset.go:328, dataset.go:263).
DoOps == {"batchUpload", "batchDelete", "putFile", "rangedGet"}

\* The operations that send through the retrying client
\* (batch_download.go:153-155, part_009:64-65).
RetryableOps == {"batchDownload", "uploadPatch"}

\* How one call of http.Client.Do ends: a transport failure, or a response
\* with a status of the class named.
Outcomes == {"transport", "s500", "s501", "s400", "s200"}

\* The response and the error of http.Client.Do for an outcome; a call made
\* under a cancelled context fails with the context's error.
RespOf(o) == IF o \in {"transport", "canceled"} THEN "none" ELSE o

ErrOf(o) ==
    CASE o = "transport" -> UrlError(<<"connection reset">>)
      [] o = "canceled" -> UrlError(Canceled)
      [] OTHER -> Nil

NoResult == [resp |-> "none", err |-> Nil]

ErrGivingUp == <<"giving up after 10 attempts">>

\* The client, mutated: no ErrorHandler is set.
newRetryableClientNoHandler(httpClient) ==
    [HTTPClient |-> httpClient, RetryMax |-> RetryMax,
     CheckRetry |-> "DefaultRetryPolicy", ErrorHandler |-> "none"]

\* part_007:170-184 newRetryableClient.
newRetryableClient(httpClient) ==
    [HTTPClient |-> httpClient, RetryMax |-> RetryMax,
     CheckRetry |-> "DefaultRetryPolicy",
     ErrorHandler |-> "PassthroughErrorHandler"]

\* retryable.DefaultRetryPolicy: no retry under a cancelled context; retry
\* after an error and after a 5xx response other than 501.
DefaultRetryPolicy(isCancelled, o) ==
    IF isCancelled THEN [retry |-> FALSE, err |-> Canceled]
    ELSE IF ErrOf(o) # Nil THEN [retry |-> TRUE, err |-> Nil]
    ELSE [retry |-> o = "s500", err |-> Nil]

\* What Do returns when the attempts are used up: the ErrorHandler's
\* result, or without one the library's own error and no response.
GiveUp(client, o) ==
    IF client.ErrorHandler = "PassthroughErrorHandler"
      THEN [resp |-> RespOf(o), err |-> ErrOf(o)]
      ELSE [resp |-> "none", err |-> ErrGivingUp]

\* An operation sends its request.
RequestStart(op) ==
    /\ rqpc = "idle"
    /\ rqop' = op
    /\ rqpc' = "attempt"
    /\ rqi' = 0
    /\ UNCHANGED <<rqhist, rqcancelled, rqcancelAt, rqret>>
    /\ UNCHANGED notRetry

\* One call of http.Client.Do. Client.do returns its result at once: the
\* error, or the response (client.go:90-98); the retrying client goes on
\* to its policy.
RequestAttempt(o) ==
    /\ rqpc = "attempt"
    /\ LET out == IF rqcancelled THEN "canceled" ELSE o IN
         /\ rqhist' = Append(rqhist, out)
         /\ IF rqop \in DoOps
              THEN /\ rqpc' = "returned"
                   /\ rqret' = [resp |-> RespOf(out), err |-> ErrOf(out)]
              ELSE /\ rqpc' = "check"
                   /\ UNCHANGED rqret
    /\ UNCHANGED <<rqop, rqi, rqcancelled, rqcancelAt>>
    /\ UNCHANGED notRetry

\* The retry loop after an attempt: CheckRetry decides; without a retry Do
\* returns the response with the policy's error or the attempt's; with
\* RetryMax - i <= 0 it gives up; otherwise it waits.
RequestCheck ==
    /\ rqpc = "check"
    /\ LET o == rqhist[Len(rqhist)]
           client == newRetryableClient("http.Client")
           ck == DefaultRetryPolicy(rqcancelled, o)
       IN IF ~ck.retry
            THEN /\ rqpc' = "returned"
                 /\ rqret' = [resp |-> RespOf(o),
                              err |-> IF ck.err # Nil THEN ck.err ELSE ErrOf(o)]
          ELSE IF client.RetryMax - rqi <= 0
            THEN /\ rqpc' = "returned"
                 /\ rqret' = GiveUp(client, o)
          ELSE /\ rqpc' = "wait"
               /\ UNCHANGED rqret
    /\ UNCHANGED <<rqop, rqi, rqhist, rqcancelled, rqcancelAt>>
    /\ UNCHANGED notRetry

\* The wait between two attempts: the select on the context and on the
\* timer of the backoff. A cancelled context ends Do with the context's
\* error; otherwise the next attempt follows.
RequestWait ==
    /\ rqpc = "wait"
    /\ IF rqcancelled
         THEN /\ rqpc' = "returned"
              /\ rqret' = [resp |-> "none", err |-> Canceled]
              /\ UNCHANGED rqi
         ELSE /\ rqpc' = "attempt"
              /\ rqi' = rqi + 1
              /\ UNCHANGED rqret
    /\ UNCHANGED <<rqop, rqhist, rqcancelled, rqcancelAt>>
    /\ UNCHANGED notRetry

\* The context of the request is cancelled.
RequestCancel ==
    /\ rqpc \in {"attempt", "check", "wait"}
    /\ ~rqcancelled
    /\ rqcancelled' = TRUE
    /\ rqcancelAt' = Len(rqhist)
    /\ UNCHANGED <<rqpc, rqop, rqi, rqhist, rqret>>
    /\ UNCHANGED notRetry

RetryInit ==
    /\ rqpc = "idle"
    /\ rqop = "none"
    /\ rqi = 0
    /\ rqhist = <<>>
    /\ rqcancelled = FALSE
    /\ rqcancelAt = -1
    /\ rqret = NoResult

RetryNext ==
    \/ \E op \in DoOps \cup RetryableOps : RequestStart(op)
    \/ \E o \in Outcomes : RequestAttempt(o)
    \/ RequestCheck
    \/ RequestWait
    \/ RequestCancel

-----------------------------------------------------------------------------
(* exponentialJitterBackoff, part_007:186-200. Durations are whole numbers *)
(* of nanoseconds; the value of random.Float64 is k / JitterDen.           *)

MaxWait == 4

MaxAttempt == 4

JitterDen == 4

NoBackoff == [minDuration |-> 1, maxDuration |-> 1, attempt |-> 0, k |-> 0]

\* The backoff, mutated: the exponential term is not capped.
exponentialJitterBackoffUncapped(minDuration, maxDuration, attempt, k) ==
    minDuration + ((minDuration * 2^attempt) * k) \div JitterDen

\* part_007:190-200: min + math.Min(max-min, min*math.Exp2(attempt)) * u,
\* converted to a time.Duration, which drops the fraction.
exponentialJitterBackoff(minDuration, maxDuration, attempt, k) ==
    minDuration +
      (Min(maxDuration - minDuration, minDuration * 2^attempt) * k) \div JitterDen

\* The retry loop asks for the wait after an attempt.
BackoffCall(minDuration, maxDuration, attempt, k) ==
    /\ bkpc = "idle"
    /\ bkcall' = [minDuration |-> minDuration, maxDuration |-> maxDuration,
                  attempt |-> attempt, k |-> k]
    /\ bkret' = exponentialJitterBackoff(minDuration, maxDuration, attempt, k)
    /\ bkpc' = "done"
    /\ UNCHANGED notBackoff

\* The loop goes on to the next attempt.
BackoffAgain ==
    /\ bkpc = "done"
    /\ bkpc' = "idle"
    /\ bkcall' = NoBackoff
    /\ bkret' = 0
    /\ UNCHANGED notBackoff

BackoffInit ==
    /\ bkpc = "idle"
    /\ bkcall = NoBackoff
    /\ bkret = 0

BackoffNext ==
    \/ \E minDuration \in 1..MaxWait : \E maxDuration \in minDuration..MaxWait :
         \E attempt \in 0..MaxAttempt : \E k \in 0..JitterDen :
           BackoffCall(minDuration, maxDuration, attempt, k)
    \/ BackoffAgain

-----------------------------------------------------------------------------
(* Upload over a tree that stays as it was listed, against a service that  *)
(* answers every request: the walk hands regular files and directories to  *)
(* the visitor, and every batch.Upload succeeds.                           *)

QuietEntries ==
    {e \in WalkEntries : e.kind = "dir" \/ (e.kind = "file" /\ e.avail = e.size)}

QuietEnvs(b) == {e \in UploadEnvs(b) : UploadBatchUpload(b, e).err = Nil}

QuietNext ==
    \/ \E concurrency \in 1..MaxLimit : UploadStart(concurrency)
    \/ \E entry \in QuietEntries : Visit(entry)
    \/ VisitSend
    \/ WalkEnd
    \/ LastSend
    \/ UploadReturn
    \/ \E u \in Units : UnitStart(u)
    \/ \E u \in Units :
         /\ units[u].pc = "uploading"
         /\ \E env \in QuietEnvs(units[u].batch) : UnitUpload(u, env)
    \/ \E u \in Units : UnitExit(u)

-----------------------------------------------------------------------------
(* Download's listing, cli/dataset.go:181-186: a BatchDownloader over a    *)
(* modifiedIterator over the files of the dataset, beside a target         *)
(* directory that holds local copies of some of them.                      *)

\* What os.Stat and getDigest find at the target path of a listed file:
\* nothing, an error, or a file with its size, its digest (0 stands for the
\* digest of other content) and whether it can be read.
LocalFiles(info) ==
    {[kind |-> k, size |-> 0, digest |-> 0, readable |-> TRUE] :
        k \in {"absent", "statError"}}
    \cup {[kind |-> "file", size |-> info.size + 1, digest |-> 0, readable |-> TRUE]}
    \cup {[kind |-> "file", size |-> info.size, digest |-> RemoteDigest(info),
           readable |-> rd] : rd \in BOOLEAN}
    \cup {[kind |-> "file", size |-> info.size, digest |-> 0, readable |-> TRUE]}

\* The target directories for a listing: one local file per listed file.
Locals(items) ==
    {l \in [1..Len(items) -> UNION {LocalFiles(items[i]) : i \in 1..Len(items)}] :
        \A i \in 1..Len(items) : l[i] \in LocalFiles(items[i])}

\* cli/dataset.go:181-186: the modifiedIterator and the downloader over it.
ModifiedNew(items, local, failAt) ==
    /\ dpc = "new"
    /\ down' = DownloadBatch([items |-> items, pos |-> 0, calls |-> 0,
                              failAt |-> failAt, local |-> local,
                              skipped |-> <<>>,
                              written |-> [files |-> 0, bytes |-> 0]])
    /\ dpc' = "open"
    /\ UNCHANGED <<dcalls, dbatches, dret>>
    /\ UNCHANGED notDown

ModifiedNext ==
    \/ /\ dpc = "new"
       /\ \E n \in 0..batchSizeLimit : \E items \in DlListings(n) :
            \E local \in Locals(items) : \E failAt \in 0..2 :
              ModifiedNew(items, local, failAt)
    \/ DownloaderNext

-----------------------------------------------------------------------------
(* The digest codec of package api, part_000:10-36. A string is the        *)
(* sequence of its characters, a digest the sequence of its bytes.         *)

\* The number of byte patterns, of steps between the bytes of a pattern,
\* and of lengths tried on either side of the digest's length.
NumSeeds == 3

NumSteps == 3

MaxExtra == 2

\* part_000:31: the length of a SHA-256 digest.
DigestSize == 32

\* part_001:53: the name of the algorithm.
SHA256 == <<"S", "H", "A", "2", "5", "6">>

\* encoding/base64: the alphabet of StdEncoding; the padding is "=".
Alphabet ==
    <<"A", "B", "C", "D", "E", "F", "G", "H", "I", "J", "K", "L", "M",
      "N", "O", "P", "Q", "R", "S", "T", "U", "V", "W", "X", "Y", "Z",
      "a", "b", "c", "d", "e", "f", "g", "h", "i", "j", "k", "l", "m",
      "n", "o", "p", "q", "r", "s", "t", "u", "v", "w", "x", "y", "z",
      "0", "1", "2", "3", "4", "5", "6", "7", "8", "9", "+", "/">>

Letters == {Alphabet[i] : i \in 1..Len(Alphabet)}

\* The six bits a letter of the alphabet stands for.
Sextet(ch) == (CHOOSE i \in 1..Len(Alphabet) : Alphabet[i] = ch) - 1

Letter(n) == Alphabet[n + 1]

\* base64.StdEncoding.EncodeToString: three bytes make four letters; one or
\* two bytes left over make two or three letters and the padding.
RECURSIVE EncodeToString(_)
EncodeToString(src) ==
    IF Len(src) = 0 THEN <<>>
    ELSE IF Len(src) = 1
      THEN LET v == src[1] * 65536 IN
           <<Letter(v \div 262144), Letter((v \div 4096) % 64), "=", "=">>
    ELSE IF Len(src) = 2
      THEN LET v == src[1] * 65536 + src[2] * 256 IN
           <<Letter(v \div 262144), Letter((v \div 4096) % 64),
             Letter((v \div 64) % 64), "=">>
    ELSE LET v == src[1] * 65536 + src[2] * 256 + src[3] IN
         <<Letter(v \div 262144), Letter((v \div 4096) % 64),
           Letter((v \div 64) % 64), Letter(v % 64)>>
           \o EncodeToString(SubSeq(src, 4, Len(src)))

\* base64.CorruptInputError.
CorruptInputError == <<"illegal base64 data">>

IsNewline(ch) == ch \in {"\n", "\r"}

NotNewline(ch) == ~IsNewline(ch)

\* The quanta of base64.StdEncoding.DecodeString, newlines taken out: four
\* letters make three bytes; the last quantum may end in one or two
\* paddings, and the bits its letters carry beyond whole bytes are dropped.
RECURSIVE DecodeQuanta(_)
DecodeQuanta(s) ==
    IF Len(s) = 0 THEN [hash |-> <<>>, err |-> Nil]
    ELSE IF Len(s) < 4 \/ s[1] \notin Letters \/ s[2] \notin Letters
      THEN [hash |-> <<>>, err |-> CorruptInputError]
    ELSE LET a == Sextet(s[1]) * 262144 + Sextet(s[2]) * 4096 IN
         IF s[3] = "="
           THEN IF s[4] = "=" /\ Len(s) = 4
                  THEN [hash |-> <<a \div 65536>>, err |-> Nil]
                  ELSE [hash |-> <<>>, err |-> CorruptInputError]
         ELSE IF s[3] \notin Letters
           THEN [hash |-> <<>>, err |-> CorruptInputError]
         ELSE LET b == a + Sextet(s[3]) * 64 IN
              IF s[4] = "="
                THEN IF Len(s) = 4
                       THEN [hash |-> <<b \div 65536, (b \div 256) % 256>>,
                             err |-> Nil]
                       ELSE [hash |-> <<>>, err |-> CorruptInputError]
              ELSE IF s[4] \notin Letters
                THEN [hash |-> <<>>, err |-> CorruptInputError]
              ELSE LET v == b + Sextet(s[4])
                       r == DecodeQuanta(SubSeq(s, 5, Len(s)))
                   IN  IF r.err # Nil THEN r
                       ELSE [hash |-> <<v \div 65536, (v \div 256) % 256, v % 256>>
                                        \o r.hash,
                             err |-> Nil]

\* base64.StdEncoding.DecodeString: "\r" and "\n" are ignored.
DecodeString(s) == DecodeQuanta(SelectSeq(s, NotNewline))

\* strings.SplitN(s, " ", 2): s itself when it holds no space, or else what
\* stands before its first space and what stands after it.
SplitN(s) ==
    IF \A i \in 1..Len(s) : s[i] # " " THEN <<s>>
    ELSE LET i == CHOOSE k \in 1..Len(s) :
                    s[k] = " " /\ \A j \in 1..(k - 1) : s[j] # " "
         IN  <<SubSeq(s, 1, i - 1), SubSeq(s, i + 1, Len(s))>>

\* errors.Wrap(e, message) of github.com/pkg/errors.
Wrap(e, message) == IF e = Nil THEN Nil ELSE <<message>> \o e

ErrNoAlgorithm == <<"invalid digest: must include algorithm">>

ErrAlgorithm == <<"invalid digest: not a recognized algorithm">>

ErrDigestSize == <<"invalid digest: must be exactly 32 bytes">>

\* The nil slice DecodeDigest returns beside an error and for "".
NoDigest == <<-1>>

\* EncodeDigest, mutated: the space after the algorithm is left out.
EncodeDigestUnseparated(digest) == SHA256 \o EncodeToString(digest)

\* part_000:10-12 EncodeDigest.
EncodeDigest(digest) == SHA256 \o <<" ">> \o EncodeToString(digest)

\* part_000:14-36 DecodeDigest.
DecodeDigest(digest) ==
    IF digest = <<>> THEN [hash |-> NoDigest, err |-> Nil]
    ELSE LET parts == SplitN(digest) IN
         IF Len(parts) # 2 THEN [hash |-> NoDigest, err |-> ErrNoAlgorithm]
         ELSE IF parts[1] # SHA256 THEN [hash |-> NoDigest, err |-> ErrAlgorithm]
         ELSE LET r == DecodeString(parts[2]) IN
              IF r.err # Nil
                THEN [hash |-> NoDigest, err |-> Wrap(r.err, "invalid digest")]
              ELSE IF Len(r.hash) # DigestSize
                THEN [hash |-> NoDigest, err |-> ErrDigestSize]
              ELSE [hash |-> r.hash, err |-> Nil]

\* The digests handed to EncodeDigest: byte patterns of the digest's length,
\* of lengths near it and of the lengths that need padding.
DigestLens ==
    0..MaxExtra \cup ((DigestSize - MaxExtra)..(DigestSize + MaxExtra))

Digests ==
    {[i \in 1..n |-> (85 * seed + 7 * step * (i - 1)) % 256] :
        n \in DigestLens, seed \in 0..(NumSeeds - 1), step \in 0..(NumSteps - 1)}

\* What a caller may do to an encoded digest before it decodes it.
Tamperings ==
    {"payloadOnly", "algorithmOnly", "unseparated", "otherAlgorithm",
     "lowerCase", "illegalLetter", "unpadded", "secondSpace", "newline",
     "shortened", "lengthened"}

Tamper(s, kind) ==
    LET parts == SplitN(s)
        payload == IF Len(parts) = 2 THEN parts[2] ELSE <<>>
    IN  CASE kind = "payloadOnly" -> payload
          [] kind = "algorithmOnly" -> parts[1]
          [] kind = "unseparated" -> parts[1] \o payload
          [] kind = "otherAlgorithm" -> <<"M", "D", "5", " ">> \o payload
          [] kind = "lowerCase" -> <<"s", "h", "a", "2", "5", "6", " ">> \o payload
          [] kind = "illegalLetter" -> parts[1] \o <<" ", "!">> \o Tail(payload \o <<"A">>)
          [] kind = "unpadded" -> SelectSeq(s, LAMBDA ch : ch # "=")
          [] kind = "secondSpace" -> parts[1] \o <<" ", " ">> \o payload
          [] kind = "newline" -> s \o <<"\n">>
          [] kind = "shortened" -> SubSeq(s, 1, Len(s) - 4)
          [] kind = "lengthened" -> s \o <<"A", "A", "A", "A">>

NoDecode == [hash |-> NoDigest, err |-> Nil]

\* EncodeDigest(d).
EncodeCall(d) ==
    /\ dgpc = "idle"
    /\ dgdigest' = d
    /\ dgtext' = EncodeDigest(d)
    /\ dgpc' = "text"
    /\ UNCHANGED dgret
    /\ UNCHANGED notDigest

\* The digest of a file the server has no digest for.
EmptyText ==
    /\ dgpc = "idle"
    /\ dgtext' = <<>>
    /\ dgpc' = "text"
    /\ UNCHANGED <<dgdigest, dgret>>
    /\ UNCHANGED notDigest

TamperText(kind) ==
    /\ dgpc = "text"
    /\ dgtext # <<>>
    /\ dgtext' = Tamper(dgtext, kind)
    /\ dgpc' = "tampered"
    /\ UNCHANGED <<dgdigest, dgret>>
    /\ UNCHANGED notDigest

\* DecodeDigest(text).
DecodeCall ==
    /\ dgpc \in {"text", "tampered"}
    /\ dgret' = DecodeDigest(dgtext)
    /\ dgpc' = "decoded"
    /\ UNCHANGED <<dgdigest, dgtext>>
    /\ UNCHANGED notDigest

DigestAgain ==
    /\ dgpc = "decoded"
    /\ dgpc' = "idle"
    /\ dgdigest' = <<>>
    /\ dgtext' = <<>>
    /\ dgret' = NoDecode
    /\ UNCHANGED notDigest

DigestInit ==
    /\ dgpc = "idle"
    /\ dgdigest = <<>>
    /\ dgtext = <<>>
    /\ dgret = NoDecode

DigestNext ==
    \/ \E d \in Digests : EncodeCall(d)
    \/ EmptyText
    \/ \E kind \in Tamperings : TamperText(kind)
    \/ DecodeCall
    \/ DigestAgain

-----------------------------------------------------------------------------
(* FileIterator over the manifest pages of a listing, file_iterator.go and *)
(* part_008. A page is a record of part_001:81-88: its files and the       *)
(* cursor of the page after it, "" on the last page. A file is its number  *)
(* in the listing.                                                         *)

\* The number of pages of a listing, of files of a page, and of Next calls
\* made on one iterator.
MaxPages == 3

MaxPageFiles == 2

MaxPagedCalls == 9

\* The cursor the service hands out with its k-th page of n.
CursorAfter(k, n) == IF k = n THEN "" ELSE ToString(k)

\* The listings: n pages that hold the files 1, 2, ... in order.
RECURSIVE PagesOf(_, _, _)
PagesOf(lens, k, first) ==
    IF k > Len(lens) THEN <<>>
    ELSE <<[files |-> [j \in 1..lens[k] |-> first + j - 1],
            cursor |-> CursorAfter(k, Len(lens))]>>
           \o PagesOf(lens, k + 1, first + lens[k])

ManifestPages ==
    {PagesOf(lens, 1, 1) :
        lens \in UNION {[1..n -> 0..MaxPageFiles] : n \in 1..MaxPages}}

\* The page the service answers a manifest request with.
ManifestPage(pages, cursor) ==
    IF cursor = "" THEN pages[1]
    ELSE pages[(CHOOSE k \in 1..Len(pages) : pages[k].cursor = cursor) + 1]

\* dataset.go:114-120 Files: an iterator with no files, no cursor and no
\* request made.
Files == [files |-> <<>>, cursor |-> "", lastRequest |-> FALSE]

\* The test for the last page, mutated: every page is taken for the last.
LastRequestAlways(cursor) == TRUE

\* file_iterator.go:63-65: a page without a cursor is the last one.
LastRequest(cursor) == cursor = ""

\* file_iterator.go:34-68 (part_008:35-72) FileIterator.Next on the
\* iterator i: the first buffered file, or Done after the last request, or
\* else a manifest request for i.cursor and Next again on the page it
\* brings. failAt is the number of the request of this call that fails
\* (0: none); reqs are the requests made so far.
RECURSIVE FileIteratorNextPage(_, _, _, _)
FileIteratorNextPage(i, pages, failAt, reqs) ==
    IF Len(i.files) # 0
      THEN [it |-> [i EXCEPT !.files = Tail(@)], info |-> Head(i.files),
            err |-> Nil, reqs |-> reqs]
    ELSE IF i.lastRequest
      THEN [it |-> i, info |-> 0, err |-> ErrDone, reqs |-> reqs]
    ELSE LET req == [cursor |-> i.cursor, buffered |-> Len(i.files),
                     ok |-> failAt # Len(reqs) + 1]
         IN  IF ~req.ok
               THEN [it |-> i, info |-> 0, err |-> IterError,
                     reqs |-> Append(reqs, req)]
               ELSE LET body == ManifestPage(pages, i.cursor) IN
                    FileIteratorNextPage(
                        [files |-> body.files, cursor |-> body.cursor,
                         lastRequest |-> i.lastRequest \/ LastRequest(body.cursor)],
                        pages, failAt, Append(reqs, req))

\* DatasetRef.Files over the listing.
PagedNew(pages) ==
    /\ pgpc = "new"
    /\ pgpages' = pages
    /\ pgit' = Files
    /\ pgpc' = "open"
    /\ UNCHANGED <<pgcalls, pgyield, pgreqs, pgret>>
    /\ UNCHANGED notPage

\* One Next call.
PagedNext(failAt) ==
    /\ pgpc = "open"
    /\ pgcalls < MaxPagedCalls
    /\ LET r == FileIteratorNextPage(pgit, pgpages, failAt, <<>>) IN
         /\ pgit' = r.it
         /\ pgret' = r.err
         /\ pgyield' = IF r.err = Nil THEN Append(pgyield, r.info) ELSE pgyield
         /\ pgreqs' = pgreqs \o r.reqs
    /\ pgcalls' = pgcalls + 1
    /\ UNCHANGED <<pgpc, pgpages>>
    /\ UNCHANGED notPage

PagedInit ==
    /\ pgpc = "new"
    /\ pgpages = <<>>
    /\ pgit = Files
    /\ pgcalls = 0
    /\ pgyield = <<>>
    /\ pgreqs = <<>>
    /\ pgret = Nil

PagedSteps ==
    \/ /\ pgpc = "new"
       /\ \E pages \in ManifestPages : PagedNew(pages)
    \/ \E failAt \in 0..2 : PagedNext(failAt)

-----------------------------------------------------------------------------
(* The consumer of ReadFileRange closes the pipe reader it was given       *)
(* (dataset.go:188, 198). From then on every write to the pipe fails, so   *)
(* the io.Copy call that is running ends in an error after the bytes it    *)
(* has delivered, and every later io.Copy call ends in an error at once.   *)

\* pr.Close() while the copying goroutine is in an io.Copy call.
ConsumerClose ==
    /\ rfpc = "copying"
    /\ pclosed = 0
    /\ pclosed' = Len(attempts) + 1
    /\ UNCHANGED notClose

\* dataset.go:216-234: one turn of the loop on a pipe the consumer has
\* closed: n is what the running call delivered before the close.
ReadLoopClosed(n, kind) ==
    /\ pclosed # 0
    /\ Len(attempts) + 1 > pclosed => n = 0
    /\ ReadLoop(n, TRUE, kind)

CloseInit == pclosed = 0

ReadCloseNext ==
    \/ \E offset \in -1..FileLen : \E length \in -1..(FileLen + 1) :
         \E kind \in ReadKinds(offset) \cup {"newRequest"} :
           ReadFileRange(offset, length, kind)
    \/ /\ pclosed = 0
       /\ \E n \in 0..FileLen : \E fails \in BOOLEAN :
            \E kind \in ReadKinds(roffset + n) \cup {"newRequest"} :
              ReadLoop(n, fails, kind)
    \/ ConsumerClose
    \/ \E n \in 0..FileLen : \E kind \in ReadKinds(roffset + n) \cup {"newRequest"} :
         ReadLoopClosed(n, kind)

-----------------------------------------------------------------------------
(* One run of an orchestrator, Upload or Download, with units that fail    *)
(* and a caller that cancels. The files of the Upload fill a batch each.   *)

LargeEntries ==
    {e \in WalkEntries : e.kind = "dir" \/ (e.kind = "file" /\ e.size = MaxFileSize)}

OrchestratorNext ==
    \/ /\ dlpc = "start"
       /\ \/ \E concurrency \in 0..MaxLimit : UploadStart(concurrency)
          \/ \E entry \in LargeEntries : Visit(entry)
          \/ VisitSend
          \/ WalkEnd
          \/ LastSend
          \/ UploadReturn
          \/ CallerCancel
          \/ \E u \in Units : UnitStart(u)
          \/ \E u \in Units :
               /\ units[u].pc = "uploading"
               /\ \E env \in CtxEnvs(units[u].batch, cancelled) : UnitUpload(u, env)
          \/ \E u \in Units : UnitReport(u)
          \/ \E u \in Units : UnitExit(u)
    \/ /\ upc = "start"
       /\ DlNext

-----------------------------------------------------------------------------
(* The specifications *)

Init == LimInit /\ ErrInit /\ BatchInit /\ UpInit /\ DownInit /\ FbInit /\ DlInit /\ ReadInit /\ WriteInit /\ RetryInit /\ BackoffInit /\ DigestInit /\ PagedInit /\ CloseInit

\* The limiter with a producer that calls Go up to NumTasks times, then Wait.
LimiterSpec == Init /\ [][LimNext]_vars

LimiterFair ==
    /\ WF_vars(Producer)
    /\ \A t \in Tasks : WF_vars(Routine(t))

\* The Go scheduler runs every goroutine that can take a step, and every fn
\* body terminates.
LimiterFairSpec == LimiterSpec /\ LimiterFair

\* The error box with NumReporters goroutines that each call Report once,
\* and a goroutine that calls Err.
ErrorSpec == Init /\ [][ErrNext]_vars

\* One batch at a time: created, filled by up to MaxAdds AddFile calls and
\* executed once.
BatchSpec == Init /\ [][BatchNext]_vars

\* One call of cli.Upload on a tree of up to MaxWalk entries, with a caller
\* that may cancel its context.
UploadSpec == Init /\ [][UpNext]_vars

\* One BatchDownloader over a listing of up to MaxInfos files, and up to
\* MaxNext calls of Next on it.
DownloaderSpec == Init /\ [][DownNext]_vars

\* One FileBatch of up to batchSizeLimit files, and up to MaxNext calls of
\* Next on it, each ending as the service and the network decide.
FileBatchSpec == Init /\ [][FbNext]_vars

\* One call of cli.Download on a listing of up to MaxInfos files, with a
\* caller that may cancel its context.
DownloadSpec == Init /\ [][DlNext]_vars

\* One call of ReadFileRange on a file of FileLen bytes, with a consumer
\* that reads the pipe to its end and streams that fail up to MaxFails times.
ReadSpec == Init /\ [][ReadNext]_vars

\* WriteFile calls of every size up to MaxWrite, on sources that hold
\* fewer, as many or more bytes than declared, against a service whose
\* requests may fail and whose responses may carry a digest.
WriteSpec == Init /\ [][WriteNext]_vars


\* One request of each operation, against a service and a network whose
\* attempts end in every way, under a context that may be cancelled.
RetrySpec == Init /\ [][RetryNext]_vars


\* The backoff for every wait range up to MaxWait, every attempt up to
\* MaxAttempt and every jitter k / JitterDen.
BackoffSpec == Init /\ [][BackoffNext]_vars


\* Upload without failures: what the walk and the limiter make of a tree.
UploadQuietSpec == Init /\ [][QuietNext]_vars


\* The batches of a download into a directory that holds local copies.
ModifiedSpec == Init /\ [][ModifiedNext]_vars


DigestSpec == Init /\ [][DigestNext]_vars


PagedSpec == Init /\ [][PagedSteps]_vars


ReadCloseSpec == Init /\ [][ReadCloseNext]_vars


OrchestratorSpec == Init /\ [][OrchestratorNext]_vars

-----------------------------------------------------------------------------
(* Claims about the limiter *)

GoReturns == ppc = "send" /\ ppc' = "idle"

\* C1: at most limit fn bodies have started and not yet returned, and a Go
\* call returns to its caller only from a state where fewer than limit
\* bodies are running.
C1_AtMostLimitRunning ==
    /\ [](Cardinality(Running) <= limit)
    /\ [][GoReturns => Cardinality(Running) < limit]_vars

\* A Go call is blocked while limit bodies are running.
C1_Witness ==
    /\ ppc = "send"
    /\ limit >= 1
    /\ Cardinality(Running) = limit

\* C2: Wait returns only after every function passed to Go has returned.
C2_WaitAfterAll ==
    ppc = "waited" =>
        \A t \in Tasks : t <= cur => tpc[t] \in {"returned", "released", "done"}

\* Wait has returned after three routines, one of which had to wait for a slot.
C2_Witness ==
    /\ ppc = "waited"
    /\ cur = NumTasks
    /\ limit < NumTasks

\* C3: every function passed to Go is entered exactly once: never twice,
\* and, once Go was called, eventually; and every Go call returns.
C3_ExactlyOnce ==
    /\ [](\A t \in Tasks : runs[t] <= 1)
    /\ \A t \in Tasks : (cur >= t) ~> (runs[t] = 1 /\ tpc[t] = "done")
    /\ (ppc = "send") ~> (ppc = "idle")

\* Go has returned while its function has not started: it runs asynchronously.
C3_Witness ==
    /\ ppc = "idle"
    /\ cur = NumTasks
    /\ tpc[cur] = "spawned"
    /\ runs[cur] = 0
    /\ \E t \in Tasks : runs[t] = 1 /\ tpc[t] = "done"
-----------------------------------------------------------------------------
(* Claims about the error box *)

RECURSIVE FirstReportable(_)
\* The first argument of a sequence that is neither nil nor context.Canceled.
FirstReportable(s) ==
    IF s = <<>> THEN Nil
    ELSE IF Head(s) # Nil /\ Head(s) # Canceled THEN Head(s)
    ELSE FirstReportable(Tail(s))

\* C4: after all Report calls are over, Err returns the argument of the
\* first Report call, in lock-acquisition order, that is neither nil nor
\* context.Canceled; a stored error never changes; a Report of nil or of
\* context.Canceled never takes the lock and never changes the stored value.
C4_FirstErrorWins ==
    /\ [](got.called /\ got.final => got.val = FirstReportable(lockOrder))
    /\ [](\A i \in 1..Len(lockOrder) :
             lockOrder[i] # Nil /\ lockOrder[i] # Canceled)
    /\ [][err # Nil => err' = err]_vars
    /\ [][\A r \in Reporters :
             rpc'[r] # rpc[r] /\ rarg'[r] \in {Nil, Canceled}
                 => err' = err /\ lock' = lock]_vars

\* Three reports raced: the second failure took the lock after the first,
\* a cancellation was reported too, and Err returned the first.
C4_Witness ==
    /\ got.called /\ got.final
    /\ Len(lockOrder) >= 2
    /\ lockOrder[1] # lockOrder[2]
    /\ got.val = lockOrder[1]
    /\ \E r \in Reporters : rarg[r] = Canceled
-----------------------------------------------------------------------------
(* Claims about the batch assemblers *)

IsUpload == bpc # "none" /\ batch.kind = "upload"

IsDelete == bpc # "none" /\ batch.kind = "delete"

\* C6 as stated: the total size of an upload batch never exceeds
\* requestSizeLimit and its length never exceeds batchSizeLimit, a first
\* file larger than requestSizeLimit included.
C6_Original ==
    IsUpload => Size(batch) <= requestSizeLimit /\ Length(batch) <= batchSizeLimit

\* C6, amended: the length of an upload batch never exceeds batchSizeLimit,
\* and its total size exceeds requestSizeLimit only when it holds exactly
\* one file, which alone is larger than requestSizeLimit.
C6_Bounded ==
    IsUpload =>
        /\ Length(batch) <= batchSizeLimit
        /\ Len(batch.readers) = Length(batch)
        /\ Len(batch.sizes) = Length(batch)
        /\ Size(batch) > requestSizeLimit =>
               Length(batch) = 1 /\ batch.sizes[1] > requestSizeLimit

\* A batch whose first file is larger than requestSizeLimit has refused a
\* second file.
C6_Witness ==
    /\ IsUpload
    /\ Length(batch) = 1
    /\ Size(batch) > requestSizeLimit
    /\ call.op = "AddFile"
    /\ ret = ErrNoCapacity

\* C7: once HasCapacity(s) is false for a batch, no AddFile call on that
\* batch, admitted or rejected, makes it true again.
C7_Monotonic ==
    [][bpc = "assembling" /\ bpc' = "assembling"
       /\ batch.kind = "upload" /\ batch'.kind = "upload"
         => \A s \in FileSizes :
              ~UploadBatchHasCapacity(batch, s) => ~UploadBatchHasCapacity(batch', s)]_vars

\* A batch without capacity for the largest file has admitted a smaller
\* file and rejected another.
C7_Witness ==
    /\ bpc = "assembling"
    /\ batch.kind = "upload"
    /\ Length(batch) = 2
    /\ nadd > Length(batch) + 1
    /\ call.op = "AddFile"
    /\ ret = Nil
    /\ batch.sizes[1] > 0
    /\ ~UploadBatchHasCapacity(batch, batch.sizes[1])
    /\ UploadBatchHasCapacity(batch, 0)

AddFileStep == call'.op = "AddFile" /\ nadd' = nadd + 1

\* C8: AddFile returns the capacity error exactly when HasCapacity is
\* false, and then leaves the batch as it was; otherwise it returns nil,
\* appends exactly one entry and, for an upload batch, adds size to the
\* total.
C8_AddFile ==
    [][AddFileStep =>
        /\ batch.kind = "upload" =>
             /\ ret' = ErrNoCapacity <=> ~UploadBatchHasCapacity(batch, call'.size)
             /\ ret' = ErrNoCapacity => batch' = batch
             /\ ret' # ErrNoCapacity =>
                  /\ ret' = Nil
                  /\ batch'.paths = Append(batch.paths, call'.path)
                  /\ batch'.sizes = Append(batch.sizes, call'.size)
                  /\ Len(batch'.readers) = Len(batch.readers) + 1
                  /\ SubSeq(batch'.readers, 1, Len(batch.readers)) = batch.readers
                  /\ batch'.readers[Len(batch'.readers)].id = call'.path
                  /\ batch'.size = batch.size + call'.size
        /\ batch.kind = "delete" =>
             /\ ret' = ErrNoCapacity <=> ~DeleteBatchHasCapacity(batch)
             /\ ret' = ErrNoCapacity => batch' = batch
             /\ ret' # ErrNoCapacity =>
                  /\ ret' = Nil
                  /\ batch'.paths = Append(batch.paths, call'.path)]_vars

\* An upload batch with room for more files has rejected a file for its size.
C8_Witness ==
    /\ IsUpload
    /\ call.op = "AddFile"
    /\ ret = ErrNoCapacity
    /\ Length(batch) = 2
    /\ Length(batch) < batchSizeLimit

IsMultipart(req) == req.method = "POST" /\ req.url \in {<<"batch/upload">>, <<"batch/delete">>}

\* The request that commits the single entry of a batch.
IsSingle(req) ==
    /\ req.method = IF batch.kind = "upload" THEN "PUT" ELSE "DELETE"
    /\ req.url = <<"files", batch.paths[1]>>

Executed == bpc = "executed"

BeforeSending ==
    {Truncated(p) : p \in 1..MaxAdds}
    \cup {WithStack(ReadError), WithStack(NewRequestError), NewRequestError}

C10_ReadersClosed ==
    Executed /\ IsUpload =>
        \A i \in 1..Len(batch.readers) :
            batch.readers[i].closer => batch.readers[i].id \in closed

\* Upload has failed on a truncated second file of three and closed the
\* readers of all three.
C10_Witness ==
    /\ Executed
    /\ IsUpload
    /\ Length(batch) = 3
    /\ ret = Truncated(batch.paths[2])
    /\ sent = <<>>
    /\ \A i \in 1..3 : batch.readers[i].closer /\ batch.readers[i].id \in closed
-----------------------------------------------------------------------------
(* Claims about cli.Upload *)

\* C5: no cancellation error, bare or wrapped, is ever recorded in the
\* error box or returned by Upload.
C5_NoCancellationSurfaced == ~IsCancellation(err) /\ ~IsCancellation(uret)
-----------------------------------------------------------------------------
(* Claims about the BatchDownloader *)

\* The iterator has returned no error other than ErrDone so far.
NoIterError == down.files.failAt = 0 \/ down.files.calls < down.files.failAt

\* The infos of a sequence of batches, concatenated.
RECURSIVE Flatten(_)
Flatten(bs) == IF bs = <<>> THEN <<>> ELSE Head(bs).infos \o Flatten(Tail(bs))

\* The item Next holds back for the next batch, as a sequence.
Buffered == IF down.nextInfo = NoInfo THEN <<>> ELSE <<down.nextInfo>>

\* C11: while the iterator yields no error, the batches returned so far,
\* concatenated in order and followed by the deferred item, are exactly the
\* items the iterator has handed out, in order; a deferred item is the first
\* item of the next batch; and once Next has returned Done the batches
\* concatenated are the whole listing.
C11_BatchesPartitionListing ==
    /\ [](NoIterError =>
            Flatten(dbatches) \o Buffered
                = SubSeq(down.files.items, 1, down.files.pos))
    /\ [](NoIterError /\ dret = ErrDone => Flatten(dbatches) = down.files.items)
    /\ [][down.nextInfo # NoInfo /\ dcalls' = dcalls + 1 /\ dret' = Nil
            => dbatches'[Len(dbatches')].infos[1] = down.nextInfo]_vars

\* A listing of four files came back as three batches, then Done.
C11_Witness ==
    /\ dret = ErrDone
    /\ NoIterError
    /\ Len(down.files.items) = 4
    /\ Len(dbatches) = 3
    /\ Len(dbatches[2].infos) = 2

\* The paths of the batches the upload assembler makes of items from the
\* i-th on, given the batch b under assembly: a new batch is started
\* whenever HasCapacity is false.
RECURSIVE GreedyBatches(_, _, _)
GreedyBatches(items, i, b) ==
    IF i > Len(items)
      THEN IF Length(b) = 0 THEN <<>> ELSE <<b.paths>>
    ELSE IF ~UploadBatchHasCapacity(b, items[i].size)
      THEN <<b.paths>> \o
           GreedyBatches(items, i + 1,
               UploadBatchAddFile(NewUploadBatch, items[i].id, NoFile.reader,
                                  items[i].size).batch)
    ELSE GreedyBatches(items, i + 1,
             UploadBatchAddFile(b, items[i].id, NoFile.reader, items[i].size).batch)

\* C12: while the iterator yields no error, the batches Next has returned
\* are the first batches the upload assembler makes of the same sizes, and
\* all of them once Next has returned Done.
C12_SameBoundaries ==
    NoIterError =>
        LET g == GreedyBatches(down.files.items, 1, NewUploadBatch) IN
        /\ Len(dbatches) <= Len(g)
        /\ \A i \in 1..Len(dbatches) : Ids(dbatches[i].infos) = g[i]
        /\ dret = ErrDone => Len(dbatches) = Len(g)

\* Both cuts happened: one batch was full by count, another by size with
\* files that fill requestSizeLimit exactly.
C12_Witness ==
    /\ dret = ErrDone
    /\ NoIterError
    /\ Len(dbatches) = 2
    /\ dbatches[1].size = requestSizeLimit
    /\ Len(dbatches[1].infos) = 2
    /\ dbatches[2].infos[1].size > 0
-----------------------------------------------------------------------------
(* Claims about the FileBatch *)

FileBatchCalled == fcalls' = fcalls + 1

\* C14: the k-th successful Next call returns the k-th info of the batch
\* with the k-th part of the response; after n successful calls on a batch
\* of n infos the next call returns Done; a batch of two or more files
\* issues at most one request, a multipart POST, and only on its first call.
C14_PositionalPairing ==
    /\ [](\A k \in 1..Len(fgot) :
             fgot[k].info = fb.infos[k] /\ fgot[k].part = k)
    /\ [][FileBatchCalled /\ Len(fgot) = Len(fb.infos) /\ fb.err = Nil
            => fret'.err = ErrDone /\ fgot' = fgot]_vars
    /\ [](Len(fb.infos) >= 2 => Len(freqs) <= 1)
    /\ [][Len(fb.infos) >= 2 /\ freqs' # freqs
            => fcalls = 0 /\ freqs'[1].method = "POST"
                          /\ freqs'[1].parts = Ids(fb.infos)]_vars

\* A batch of three files was read to its end with one request.
C14_Witness ==
    /\ Len(fb.infos) = 3
    /\ Len(fgot) = 3
    /\ fcalls = 4
    /\ fret.err = ErrDone
    /\ Len(freqs) = 1

-----------------------------------------------------------------------------
(* Claims about cli.Download *)

\* The iterator reports the end of the listing on its next call.
Exhausted(it) == it.pos >= Len(it.items) /\ it.failAt # it.calls + 1

\* C13: Next returns Done exactly when the iterator is exhausted and no
\* deferred item remains; no batch it returns is empty; and Download on an
\* empty listing gets Done from the first Next, starts no unit and returns
\* nil.
C13_DoneIffExhausted ==
    /\ [][dcalls' = dcalls + 1
            => (dret' = ErrDone
                  <=> down.nextInfo = NoInfo /\ Exhausted(down.files))]_vars
    /\ [](\A i \in 1..Len(dbatches) : dbatches[i].infos # <<>>)
    /\ [](dlpc = "returned" /\ dcalls >= 1 /\ down.files.items = <<>>
             /\ NoIterError
            => dcalls = 1 /\ dret = ErrDone /\ dnunits = 0 /\ wg = 0
                 /\ dlret = Nil)

\* Download has returned nil for an empty listing without starting a unit.
C13_Witness ==
    /\ dlpc = "returned"
    /\ limit >= 1
    /\ dcalls = 1
    /\ down.files.items = <<>>
    /\ dret = ErrDone
    /\ dnunits = 0
    /\ dlret = Nil
-----------------------------------------------------------------------------
(* Claims about ReadFileRange *)

\* The positions of the requested range of the file.
FullRange == Positions(orig.offset, RangeEnd(orig.offset, orig.length))

\* An io.Copy call has failed without copying a byte.
ZeroFail == \E i \in 1..Len(attempts) : attempts[i].err # Nil /\ attempts[i].n = 0

\* C16: the bytes the consumer reads are consecutive positions of the file
\* from the original offset on, within the requested range; when every
\* failure came after at least one byte and no reissued request failed they
\* are the whole requested range; and each reissued request starts at the
\* original offset plus the bytes delivered so far and ends where the
\* original range ends, open-ended when the original length was negative.
C16_ResumedWithoutGapOrDuplicate ==
    /\ delivered = Positions(orig.offset, orig.offset + Len(delivered))
    /\ Len(delivered) <= Len(FullRange)
    /\ rfpc = "done" /\ ~ZeroFail /\ pipeErr \in {Nil, ErrZeroLength}
         => delivered = FullRange
    /\ \A i \in 2..Len(preqs) :
         /\ preqs[i].at > 0
         /\ preqs[i].range.first = orig.offset + preqs[i].at
         /\ orig.length < 0 => preqs[i].range.last = "end"
         /\ orig.length > 0 =>
              /\ preqs[i].at < orig.length
              /\ preqs[i].range.last = ToString(orig.offset + orig.length - 1)

\* Three bytes from offset 1 were read through two failures and two
\* reissued requests.
C16_Witness ==
    /\ rfpc = "done"
    /\ pipeErr = Nil
    /\ orig = [offset |-> 1, length |-> 3]
    /\ Len(attempts) = 3
    /\ Len(preqs) = 3
    /\ delivered = <<1, 2, 3>>

\* C17: a failure of io.Copy that delivered no byte is the last one: its
\* error reaches the consumer and no request follows it; the error of a
\* failure that delivered one or more bytes never reaches the consumer.
C17_ZeroProgressIsFatal ==
    \A i \in 1..Len(attempts) :
        attempts[i].err # Nil =>
            /\ attempts[i].n = 0 =>
                 /\ i = Len(attempts)
                 /\ rfpc = "done"
                 /\ pipeErr = WithStack(attempts[i].err)
                 /\ Len(preqs) = i
            /\ attempts[i].n > 0 =>
                 pipeErr \notin {attempts[i].err, WithStack(attempts[i].err)}

\* A stream failed after one byte, the reissued stream failed at once, and
\* the consumer got the second error.
C17_Witness ==
    /\ rfpc = "done"
    /\ Len(attempts) = 2
    /\ attempts[1].n = 1 /\ attempts[1].err # Nil
    /\ attempts[2].n = 0 /\ attempts[2].err # Nil
    /\ pipeErr = WithStack(StreamError(2))
    /\ Len(preqs) = 2
-----------------------------------------------------------------------------
(* Claims about the chunked upload *)

\* The PATCH requests of the chunked upload, in order.
Patches == SelectSeq(wup.reqs, LAMBDA r : r.method = "PATCH")

\* The sum of the body lengths of the first n PATCH requests.
RECURSIVE SentBytes(_)
SentBytes(n) == IF n = 0 THEN 0 ELSE SentBytes(n - 1) + Patches[n].contentLength

\* C18: every PATCH carries the declared length as Upload-Length and the
\* sum of the bodies of the chunks before it as Upload-Offset; no chunk is
\* larger than the chunk size, and none reaches beyond the declared length.
C18_ChunkHeaders ==
    wup.called =>
        \A i \in 1..Len(Patches) :
            /\ Patches[i].uploadLength = wcall.size
            /\ Patches[i].uploadOffset = SentBytes(i - 1)
            /\ Patches[i].contentLength <= requestSizeLimit
            /\ Patches[i].uploadOffset + Patches[i].contentLength <= wcall.size

\* A source that holds more than the seven bytes declared was sent as
\* chunks of three, three and one bytes.
C18_Witness ==
    /\ wup.called
    /\ wcall.size = 7
    /\ wcall.avail > wcall.size
    /\ Len(Patches) = 3
    /\ Patches[3].uploadOffset = 6
    /\ Patches[3].contentLength = 1
    /\ wup.digest # Nil

\* C19: upload returns a digest only when the chunks it sent add up to the
\* declared length.
C19_DigestOnlyAfterAllBytes ==
    wup.called /\ wup.digest # Nil => SentBytes(Len(Patches)) = wcall.size

\* The chunks the source fills completely before it ends.
FullChunks == wcall.avail \div requestSizeLimit

\* No request up to the n-th PATCH fails, and no response up to it carries
\* a digest.
Undisturbed(n) ==
    /\ wcall.env.failAt = 0 \/ wcall.env.failAt > n + 1
    /\ wcall.env.digestAt = 0 \/ wcall.env.digestAt > n

-----------------------------------------------------------------------------
(* Claims about the path WriteFile takes *)

\* The requests WriteFile sent with the given method.
Sent(method) == SelectSeq(wret.reqs, LAMBDA r : r.method = method)

\* The source delivers the declared size and the PUT request can be built.
DirectPossible ==
    /\ wcall.avail >= wcall.size \/ wcall.size = 0
    /\ Attempt(wcall.env, 1) # "newRequest"

\* C21: a file of at most requestSizeLimit bytes is sent as one PUT whose
\* body is the content, with no upload session; a larger file goes through
\* the upload session, and its PUT carries the digest and no body; no call
\* does both.
C21_DirectOrChunked ==
    wpc = "done" =>
        /\ wcall.size <= requestSizeLimit =>
             /\ ~wup.called
             /\ Sent("POST") = <<>> /\ Sent("PATCH") = <<>>
             /\ wret.reqs = IF DirectPossible
                              THEN <<[method |-> "PUT", url |-> <<"files", 1>>,
                                      hasBody |-> wcall.size # 0,
                                      contentLength |-> wcall.size,
                                      digest |-> Nil]>>
                              ELSE <<>>
        /\ wcall.size > requestSizeLimit =>
             /\ wup.called
             /\ wret.reqs # <<>> => wret.reqs[1].method = "POST"
             /\ Len(Sent("PUT")) <= 1
             /\ \A i \in 1..Len(wret.reqs) :
                  wret.reqs[i].method = "PUT" =>
                      /\ i = Len(wret.reqs)
                      /\ ~wret.reqs[i].hasBody
                      /\ wret.reqs[i].digest = wup.digest
                      /\ wup.digest # Nil
        /\ ~(Sent("PATCH") # <<>> /\ \E i \in 1..Len(wret.reqs) :
                wret.reqs[i].method = "PUT" /\ wret.reqs[i].hasBody)

\* A file of exactly requestSizeLimit bytes was written with one PUT.
C21_Witness ==
    /\ wpc = "done"
    /\ wcall.size = requestSizeLimit
    /\ wret.err = Nil
    /\ Len(wret.reqs) = 1
    /\ wret.reqs[1].method = "PUT"
    /\ wret.reqs[1].contentLength = requestSizeLimit
-----------------------------------------------------------------------------
(* Claims about the retrying transport *)

Retried == {"transport", "s500"}

\* C22: a request sent through the retrying client is attempted at most
\* RetryMax + 1 times; every attempt but the last ended in a transport
\* failure or a 5xx response under a context not yet cancelled; once the
\* context is cancelled no further attempt reaches the service and Do
\* returns the context's error; and when the attempts are used up Do
\* returns the response or the error of the last attempt.
C22_BoundedRetries ==
    rqop \in RetryableOps =>
        /\ Len(rqhist) <= RetryMax + 1
        /\ \A k \in 1..(Len(rqhist) - 1) : rqhist[k] \in Retried
        /\ rqcancelled =>
             /\ Len(rqhist) <= rqcancelAt + 1
             /\ \A k \in (rqcancelAt + 1)..Len(rqhist) : rqhist[k] = "canceled"
        /\ rqpc = "returned" /\ rqcancelled => rqret.err = Canceled
        /\ rqpc = "returned" /\ ~rqcancelled =>
             /\ rqret = [resp |-> RespOf(rqhist[Len(rqhist)]),
                         err |-> ErrOf(rqhist[Len(rqhist)])]
             /\ rqhist[Len(rqhist)] \in Retried => Len(rqhist) = RetryMax + 1

\* Ten attempts of a batch download failed in turn, and Do returned the
\* 5xx response of the tenth.
C22_Witness ==
    /\ rqop = "batchDownload"
    /\ rqpc = "returned"
    /\ ~rqcancelled
    /\ Len(rqhist) = RetryMax + 1
    /\ rqhist[1] = "transport"
    /\ rqret = [resp |-> "s500", err |-> Nil]

\* C23: a transport failure of a batch upload, a batch delete, a PUT of a
\* file or a ranged GET reaches the caller only after RetryMax + 1
\* attempts.
C23_TransportFailureRetried ==
    /\ rqop \in DoOps
    /\ rqpc = "returned"
    /\ ~rqcancelled
    /\ rqret.err = UrlError(<<"connection reset">>)
    => Len(rqhist) = RetryMax + 1
-----------------------------------------------------------------------------
(* Claims about the backoff *)

\* The exponential term of the wait, capped.
Cap == IF bkcall.minDuration * 2^bkcall.attempt
            <= bkcall.maxDuration - bkcall.minDuration
         THEN bkcall.minDuration * 2^bkcall.attempt
         ELSE bkcall.maxDuration - bkcall.minDuration

-----------------------------------------------------------------------------
(* Claims about the orchestrators *)

\* A unit has reported an error that is no cancellation.
Reported == err # Nil /\ ~IsCancellation(err)

\* C25: once a unit has reported an error that is no cancellation, no
\* limiter.Go of Upload starts a unit: not the one of the visitor, blocked
\* or not, nor the one of the last batch.
C25_NoAdmissionAfterReport == [][nunits' > nunits => ~Reported]_vars

\* The same for Download.
C25_NoDownloadAdmissionAfterReport == [][dnunits' > dnunits => ~Reported]_vars

\* Every unit the limiter admitted has completed.
UploadDrained == \A u \in Units : units[u].pc \in {"none", "done"}

\* C26: when Upload returns the error recorded in the aggregator, every
\* unit admitted to the limiter has completed.
C26_ReturnsFirstErrorAfterDrain ==
    upc = "returned" /\ uret # Nil /\ uret = err => UploadDrained

DownloadDrained == \A u \in Units : dunits[u].pc \in {"none", "done"}

\* The same for Download.
C26_DownloadReturnsAfterDrain ==
    dlpc = "returned" /\ dlret # Nil /\ dlret = err => DownloadDrained
\* The files and the bytes of the batch a unit of Download holds.
DFiles(u) == Len(dunits[u].fb.infos)

DBytes(u) == dunits[u].fb.size

\* C27: a unit of Download that has ended after a failure has reported
\* once, has taken from the pending counts what it added at its start and
\* has added nothing to the written counts; a unit that has ended without
\* a failure has moved its files and bytes from pending to written.
C27_UnitAccounting ==
    \A u \in Units :
        dunits[u].pc \in {"returned", "done"} =>
            IF dunits[u].reports > 0
              THEN /\ dunits[u].reports = 1
                   /\ dunits[u].sum = NoUpdates
              ELSE dunits[u].sum = Updated(NoUpdates, 0, 0, DFiles(u), DBytes(u))
\* The bytes of the batches of the first n units.
RECURSIVE UnitBytes(_)
UnitBytes(n) == IF n = 0 THEN 0 ELSE UnitBytes(n - 1) + Size(units[n].batch)

\* The walk is over and the last batch was handed to the limiter.
AllSubmitted == upc = "wait"

\* C28: when Upload has walked N > 0 regular files whose sizes together
\* stay within requestSizeLimit, it has handed ceil(N / batchSizeLimit)
\* batches to the limiter; every batch but the last holds batchSizeLimit
\* files, the last holds the rest, and none is empty.
C28_UnitsByCount ==
    AllSubmitted /\ visited > 0 /\ UnitBytes(nunits) <= requestSizeLimit =>
        /\ nunits = (visited + batchSizeLimit - 1) \div batchSizeLimit
        /\ \A u \in 1..(nunits - 1) : Length(units[u].batch) = batchSizeLimit
        /\ Length(units[nunits].batch) = visited - (nunits - 1) * batchSizeLimit
        /\ \A u \in 1..nunits : Length(units[u].batch) > 0

\* Four files were walked: a unit of batchSizeLimit files and a unit of one.
C28_Witness ==
    /\ AllSubmitted
    /\ visited = batchSizeLimit + 1
    /\ UnitBytes(nunits) <= requestSizeLimit
    /\ nunits = 2
    /\ Length(units[1].batch) = batchSizeLimit
    /\ Length(units[2].batch) = 1
-----------------------------------------------------------------------------
(* Claims about the files Download skips *)

\* The listing, the local files and the files the iterator skipped.
Listed == down.files.items

\* A local file exists at the target path of the i-th listed file with the
\* size and the digest of the listing.
Matches(i) ==
    /\ down.files.local[i].kind = "file"
    /\ down.files.local[i].size = Listed[i].size
    /\ down.files.local[i].digest = RemoteDigest(Listed[i])

\* The ids the downloader has put in its first n batches or holds for the
\* next one.
RECURSIVE BatchedIds(_)
BatchedIds(n) ==
    IF n = 0 THEN IF down.nextInfo = NoInfo THEN {} ELSE {down.nextInfo.id}
    ELSE BatchedIds(n - 1)
           \cup {dbatches[n].infos[j].id : j \in 1..Len(dbatches[n].infos)}

SkippedIds == {down.files.skipped[k] : k \in 1..Len(down.files.skipped)}

RECURSIVE MatchedBytes(_)
MatchedBytes(n) ==
    IF n = 0 THEN 0
    ELSE MatchedBytes(n - 1) + IF Matches(n) THEN Listed[n].size ELSE 0

\* os.Stat and getDigest have failed for none of the files taken from the
\* listing so far.
NoLocalError ==
    \A i \in 1..down.files.pos :
        /\ down.files.local[i].kind # "statError"
        /\ down.files.local[i].kind = "file"
             /\ down.files.local[i].size = Listed[i].size
             => down.files.local[i].readable

\* C29: the files Download skips are files whose local copy has the size
\* and the digest of the listing, each counted once as written and none
\* put in a batch, and the files it batches have no such copy; when the
\* listing is exhausted and neither the listing nor os.Stat nor getDigest
\* has failed, every file with such a copy was skipped and every other
\* file batched; when every file has such a copy no batch is made and the
\* written counts are the file count and the total size.
C29_SkippedIffUnmodified ==
    "local" \in DOMAIN down.files =>
        /\ \A i \in SkippedIds : Matches(i)
        /\ \A i \in BatchedIds(Len(dbatches)) : ~Matches(i)
        /\ Cardinality(SkippedIds) = Len(down.files.skipped)
        /\ down.files.written.files = Len(down.files.skipped)
        /\ dret = ErrDone /\ NoIterError /\ NoLocalError =>
             /\ \A i \in 1..Len(Listed) :
                  /\ (i \in SkippedIds) = Matches(i)
                  /\ (i \in BatchedIds(Len(dbatches))) = ~Matches(i)
             /\ down.files.written.bytes = MatchedBytes(Len(Listed))
             /\ (\A i \in 1..Len(Listed) : Matches(i)) =>
                  /\ dbatches = <<>>
                  /\ down.files.written.files = Len(Listed)

\* Of three listed files the second had an identical local copy and was
\* skipped; the other two were put in a batch.
C29_Witness ==
    /\ "local" \in DOMAIN down.files
    /\ dret = ErrDone
    /\ Len(Listed) = 3
    /\ SkippedIds = {2}
    /\ BatchedIds(Len(dbatches)) = {1, 3}
    /\ down.files.local[1].kind = "file"
    /\ down.files.written = [files |-> 1, bytes |-> Listed[2].size]
-----------------------------------------------------------------------------
(* Claims about the digest codec *)

\* The text holds a space; what stands before the first one and after it.
Separated(t) == \E i \in 1..Len(t) : t[i] = " "

FirstSpace(t) == CHOOSE i \in 1..Len(t) : t[i] = " " /\ \A j \in 1..(i - 1) : t[j] # " "

AlgorithmOf(t) == SubSeq(t, 1, FirstSpace(t) - 1)

PayloadOf(t) == SelectSeq(SubSeq(t, FirstSpace(t) + 1, Len(t)), NotNewline)

\* The payload is base64: whole quanta of letters, the last one ending in
\* at most two paddings.
IsBase64(p) ==
    /\ Len(p) % 4 = 0
    /\ \A i \in 1..Len(p) :
         \/ p[i] \in Letters
         \/ /\ p[i] = "="
            /\ i >= Len(p) - 1
            /\ p[Len(p)] = "="

\* The number of bytes a base64 payload stands for.
PayloadBytes(p) ==
    3 * (Len(p) \div 4) - Cardinality({i \in 1..Len(p) : p[i] = "="})

\* A text DecodeDigest has to refuse.
Refused(t) ==
    \/ ~Separated(t)
    \/ AlgorithmOf(t) # SHA256
    \/ ~IsBase64(PayloadOf(t))
    \/ PayloadBytes(PayloadOf(t)) # DigestSize

\* C30: DecodeDigest gives back, with no error, every digest of 32 bytes
\* EncodeDigest has encoded; it gives no digest and no error for the empty
\* text; it gives an error and no digest for every other text that has no
\* algorithm before a space, names an algorithm other than SHA256, has a
\* payload that is not base64, or has a payload of other than 32 bytes.
C30_DigestRoundTrip ==
    dgpc = "decoded" =>
        /\ Len(dgdigest) = DigestSize /\ dgtext = EncodeDigest(dgdigest) =>
             dgret = [hash |-> dgdigest, err |-> Nil]
        /\ dgtext = <<>> => dgret = [hash |-> NoDigest, err |-> Nil]
        /\ dgtext # <<>> /\ Refused(dgtext) =>
             /\ dgret.err # Nil
             /\ dgret.hash = NoDigest

\* A digest of 32 bytes, not all the same, was encoded and decoded again.
C30_Witness ==
    /\ dgpc = "decoded"
    /\ Len(dgdigest) = DigestSize
    /\ dgdigest[1] # dgdigest[2]
    /\ dgtext = EncodeDigest(dgdigest)
    /\ Len(dgtext) = 51
    /\ dgret = [hash |-> dgdigest, err |-> Nil]
-----------------------------------------------------------------------------
(* Claims about the batches Upload submits *)

\* The paths of the first n batches handed to the limiter, in order.
RECURSIVE Submitted(_)
Submitted(n) == IF n = 0 THEN <<>> ELSE Submitted(n - 1) \o units[n].batch.paths

RECURSIVE SumOf(_)
SumOf(sizes) == IF sizes = <<>> THEN 0 ELSE Head(sizes) + SumOf(Tail(sizes))

\* The batch b as it was when it held its first k files.
FirstFiles(b, k) ==
    [b EXCEPT !.paths = SubSeq(@, 1, k), !.readers = SubSeq(@, 1, k),
              !.sizes = SubSeq(@, 1, k), !.size = SumOf(SubSeq(b.sizes, 1, k))]

\* Upload has returned nil after a walk.
UploadedAll == upc = "returned" /\ uret = Nil /\ nunits > 0

\* Every file of the walk is in one submitted batch, in the order of the
\* walk; a batch but the last had no capacity for the file after it, and
\* every batch had capacity for each file it holds when it took it.
InOrderAndFull ==
    UploadedAll =>
        /\ Submitted(nunits) = [i \in 1..visited |-> i]
        /\ \A u \in 1..(nunits - 1) :
             /\ Length(units[u].batch) > 0
             /\ ~UploadBatchHasCapacity(units[u].batch, units[u + 1].batch.sizes[1])
        /\ \A u \in 1..nunits : \A k \in 1..Length(units[u].batch) :
             UploadBatchHasCapacity(FirstFiles(units[u].batch, k - 1),
                                    units[u].batch.sizes[k])

\* A batch handed to the limiter stays as it is.
Untouched ==
    \A u \in Units : units[u].pc # "none" => units'[u].batch = units[u].batch

\* C31: when Upload returns nil, every regular file of the walk is in
\* exactly one batch handed to the limiter, in the order of the walk; a
\* batch is handed over when it has no capacity for the next file or when
\* the walk ends, and no sooner; and a batch handed over is not changed.
C31_SubmittedInOrder == []InOrderAndFull /\ [][Untouched]_vars

\* Upload returned nil after a walk of four files in two batches.
C31_Witness ==
    /\ UploadedAll
    /\ visited = MaxWalk
    /\ nunits = 2
    /\ Length(units[1].batch) > 1
    /\ ~UploadBatchHasCapacity(units[1].batch, units[2].batch.sizes[1])
-----------------------------------------------------------------------------
(* Claims about the files Upload holds open *)

\* The files of a batch the visitor opened with os.Open.
Opened(b) == Cardinality({i \in 1..Len(b.readers) : b.readers[i].closer})

\* The files open in the batches of the first n units: batch.Upload closes
\* the readers of its batch before it returns.
RECURSIVE OpenInUnits(_)
OpenInUnits(n) ==
    IF n = 0 THEN 0
    ELSE OpenInUnits(n - 1)
           + IF units[n].pc \in {"spawned", "uploading"}
               THEN Opened(units[n].batch) ELSE 0

OpenFiles == Opened(ubatch) + OpenInUnits(nunits)

\* C32: while Upload runs, the source files open in the batches of the
\* running units and in the batch under assembly are no more than the
\* concurrency Upload was called with.
C32_OpenFilesWithinConcurrency ==
    upc \in {"walk", "send", "lastSend", "wait"} => OpenFiles <= limit
-----------------------------------------------------------------------------
(* Claims about the paged FileIterator *)

\* The files of the first n pages, in page order and in-page order.
RECURSIVE FilesOfPages(_)
FilesOfPages(n) == IF n = 0 THEN <<>> ELSE FilesOfPages(n - 1) \o pgpages[n].files

\* The requests among the first n that were answered with a page.
RECURSIVE Answered(_)
Answered(n) ==
    IF n = 0 THEN 0 ELSE Answered(n - 1) + IF pgreqs[n].ok THEN 1 ELSE 0

Fetched == Answered(Len(pgreqs))

\* The files the iterator has yielded are the first files of the pages it
\* has fetched; it asks for a page only with no file buffered and with the
\* cursor of the last page it fetched; Done follows the fetch of the page
\* without a cursor and the yield of every file.
PagedInOrder ==
    pgpc = "open" =>
        /\ Fetched <= Len(pgpages)
        /\ pgyield \o pgit.files = FilesOfPages(Fetched)
        /\ \A k \in 1..Len(pgreqs) :
             /\ pgreqs[k].buffered = 0
             /\ pgreqs[k].cursor =
                  IF Answered(k - 1) = 0 THEN ""
                  ELSE pgpages[Answered(k - 1)].cursor
        /\ pgret = ErrDone =>
             /\ Fetched = Len(pgpages)
             /\ pgpages[Fetched].cursor = ""
             /\ pgyield = FilesOfPages(Len(pgpages))

\* A Next call after Done returns Done and makes no request.
DoneStays ==
    pgret = ErrDone /\ pgcalls' > pgcalls => pgret' = ErrDone /\ pgreqs' = pgreqs

\* C33: FileIterator.Next yields every file of every manifest page once,
\* in page order and in-page order; it requests a page only when no file
\* is buffered, with the cursor of the page before; it returns Done only
\* after it has fetched the page without a cursor and yielded all files;
\* after Done every Next returns Done without a request.
C33_PagesInOrder == []PagedInOrder /\ [][DoneStays]_vars

\* Three pages, the second one empty, were read to the end after a failed
\* request, and Next was called again after Done.
C33_Witness ==
    /\ pgpc = "open"
    /\ pgret = ErrDone
    /\ Len(pgpages) = MaxPages
    /\ pgpages[2].files = <<>>
    /\ pgyield = FilesOfPages(MaxPages)
    /\ Len(pgyield) = 2 * MaxPageFiles
    /\ Len(pgreqs) > MaxPages
    /\ pgcalls > Len(pgyield) + 2
-----------------------------------------------------------------------------
(* Claims about the streams ReadFileRange opens *)

\* The copying goroutine has finished.
CopyingOver == rfpc = "done"

\* C34: when the copying goroutine of ReadFileRange has finished, every
\* response body it was given, the first one and each one a reissued
\* request opened, is closed.
C34_StreamsClosed ==
    CopyingOver => \A k \in 1..Len(streams) : streams[k]
-----------------------------------------------------------------------------
(* Claims about the consumer's close *)

\* C35: once the consumer has closed the reader ReadFileRange returned, the
\* copying goroutine sends no ranged request.
C35_NoRequestAfterClose == [][pclosed # 0 => preqs' = preqs]_vars
-----------------------------------------------------------------------------
(* Claims about a failure after the last byte *)

\* The consumer has been handed every byte of a range of positive length
\* and the copying goroutine has finished.
AllDelivered ==
    /\ CopyingOver
    /\ orig.length > 0
    /\ Len(delivered) = orig.length

\* C36: when ReadFileRange was called with a positive length and the
\* consumer has been handed that many bytes, the reader ends without an
\* error, also when the stream reported a failure after its last byte.
C36_CleanEndAfterFullRange == AllDelivered => pipeErr = Nil
-----------------------------------------------------------------------------
(* Claims about what the orchestrators return *)

\* Upload, or Download, has returned nil after its limiter was made.
UploadNil == upc = "returned" /\ uret = Nil

DownloadNil == dlpc = "returned" /\ dlret = Nil

\* C37: Upload and Download return nil only when every unit the limiter
\* admitted has ended and none of them has failed: the error of a unit,
\* the one a cancellation by the caller makes included, keeps the
\* orchestrator from returning nil.
C37_NilOnlyIfAllUnitsSucceeded ==
    /\ UploadNil =>
         \A u \in Units : units[u].pc \in {"none", "done"} /\ units[u].err = Nil
    /\ DownloadNil =>
         \A u \in Units : dunits[u].pc \in {"none", "done"} /\ dunits[u].reports = 0

\* Upload returned nil after two units, and the caller had cancelled.
C37_Witness ==
    /\ UploadNil
    /\ nunits = 2
    /\ \A u \in 1..nunits : units[u].pc = "done" /\ Length(units[u].batch) > 0

\* Download returned nil after a unit that wrote its files.
C37_DownloadWitness ==
    /\ DownloadNil
    /\ dnunits > 0
    /\ \A u \in 1..dnunits : dunits[u].pc = "done" /\ DFiles(u) > 0
-----------------------------------------------------------------------------
(* Claims about the files Upload leaves open *)

\* Upload has returned and no unit is left running: nothing more happens.
UploadOver == upc = "returned" /\ UploadDrained

\* C38: when Upload has returned and its units have ended, no file the
\* visitor opened is open, whichever way Upload returned.
C38_OpenedFilesClosed == UploadOver => OpenFiles = 0
-----------------------------------------------------------------------------
(* Claims about the pending counts *)

\* Every unit the limiter admitted, of Upload and of Download, has ended.
AllUnitsOver == UploadDrained /\ DownloadDrained

\* C39: the sums of the updates the tracker has received never show a
\* negative number of pending files or bytes, and show none pending once
\* every admitted unit has ended.
C39_PendingNeverNegative ==
    /\ tracker.filesPending >= 0
    /\ tracker.bytesPending >= 0
    /\ AllUnitsOver => tracker.filesPending = 0 /\ tracker.bytesPending = 0
-----------------------------------------------------------------------------
(* Claims about truncated sources *)

\* The i-th reader of the batch yields fewer bytes than AddFile was told.
Short(i) == batch.readers[i].avail < batch.sizes[i]

\* The first such reader.
FirstShort == CHOOSE i \in 1..Length(batch) : Short(i) /\ \A j \in 1..(i - 1) : ~Short(j)

\* The request that commits files to the dataset.
Commits(req) == IsMultipart(req) \/ req.method = "PUT"

\* The batch is sent without a chunked upload: the sources are read before
\* any request is made.
ReadFirst == Length(batch) >= 2 \/ ~Chunked(batch.sizes[1])

\* C40: when a reader of an upload batch yields fewer bytes than declared,
\* Upload sends neither the batch/upload POST nor the PUT of the file and
\* returns an error; when the sources are read before any request and the
\* first short reader ends with the end of the file, the error names the
\* path of that reader.
C40_TruncatedNeverCommitted ==
    Executed /\ IsUpload /\ (\E i \in 1..Length(batch) : Short(i)) =>
        /\ \A k \in 1..Len(sent) : ~Commits(sent[k])
        /\ ret # Nil
        /\ ReadFirst /\ batch.readers[FirstShort].end = "eof" =>
             ret = Truncated(batch.paths[FirstShort])
====
